---- MODULE Spec2Model ----
(***************************************************************************)
(* Extraction, field mapping and orchestration of the PSA processor.       *)
(*                                                                         *)
(* Text is modelled at character level: a string of the program is a       *)
(* sequence of one-character strings, a line of the file is such a         *)
(* sequence, and the file is the sequence of its lines.  Column names,     *)
(* check names and statuses are TLA+ strings.                              *)
(***************************************************************************)
EXTENDS Integers, Sequences, FiniteSets, TLC

VARIABLES
  psa_bytes,    \* the uploaded file: the sequence of its lines
  today,        \* the date of datetime.now(), as its proleptic ordinal
  pc,           \* position of process_psa_file
  result,       \* the dictionary process_psa_file builds
  line,         \* argument of parse_psa_line
  parsed,       \* value returned by parse_psa_line, NULL before the call
  fields,       \* argument of smart_map_planogram_fields (a raw row)
  mapped,       \* value returned by smart_map_planogram_fields, <<>> before
  validator,    \* the validator under run: "Product", "Planogram" or "Fixture"
  self_df,      \* self.df, the table given to the validator
  raw_rows,     \* the raw rows given to validate_fixture_data
  self_excel_reference_bytes,  \* the reference file given to a DataValidator
  self_results, \* self.results / validation_results, NULL before the run
  hash_seed,    \* the string hash seed of the interpreter serving the upload
  previous,     \* what the previous call of process_psa_file returned
  runs,         \* the number of run_all_checks calls made on the validator
  exported      \* what each create_excel_export call so far put in its report

vars == <<psa_bytes, today, pc, result, line, parsed, fields, mapped,
          validator, self_df, raw_rows, self_excel_reference_bytes, self_results,
          hash_seed, previous, runs, exported>>

\* the state of a validator
validator_vars == <<validator, self_df, raw_rows, self_excel_reference_bytes, self_results>>

\* what is kept between two uploads and between two runs of a validator
session_vars == <<hash_seed, previous, runs, exported>>

NULL == "None"

(***************************************************************************)
(* Bounds of the explored inputs.                                          *)
(***************************************************************************)
MaxLineLen == 5      \* longest line given to parse_psa_line on its own
MaxLines == 4        \* most lines of an uploaded file
MaxRemainder == 3    \* most fields after the 7 fixed fields of a raw row
MaxFields == 3       \* most fields of a line given to merge_long_text_fields
MaxRows == 2         \* most rows of a Product or Planogram table given to its validator
MaxFixtureRows == 3  \* most Fixture rows given to validate_fixture_data

(***************************************************************************)
(* Strings.                                                                *)
(***************************************************************************)
backslash == "\\"

Max(S) == CHOOSE m \in S : \A n \in S : n <= m

\* the elements of a set of positions, in increasing order
Ascending(S) ==
  IF S = {} THEN <<>> ELSE SelectSeq([i \in 1..Max(S) |-> i], LAMBDA i : i \in S)

\* the elements of s at the positions of S, in order
Pick(s, S) == LET at == Ascending(S) IN [k \in 1..Len(at) |-> s[at[k]]] \o <<>>

StartsWith(s, prefix) ==
  Len(s) >= Len(prefix) /\ SubSeq(s, 1, Len(prefix)) = prefix

\* `pat in s`
Contains(s, pat) ==
  \E i \in 1..(Len(s) - Len(pat) + 1) : SubSeq(s, i, i + Len(pat) - 1) = pat

Whitespace == {" ", "\t", "\r"}

\* str.strip()
strip(s) ==
  IF \A i \in 1..Len(s) : s[i] \in Whitespace THEN <<>>
  ELSE LET first == CHOOSE i \in 1..Len(s) :
                      s[i] \notin Whitespace /\ \A j \in 1..(i - 1) : s[j] \in Whitespace
           last == CHOOSE i \in 1..Len(s) :
                     s[i] \notin Whitespace /\ \A j \in (i + 1)..Len(s) : s[j] \in Whitespace
       IN SubSeq(s, first, last)

Digits == {"0", "1", "2", "3", "4", "5", "6", "7", "8", "9"}

(***************************************************************************)
(* Character classes and the string methods the mapper uses.               *)
(***************************************************************************)
UpperLetters == <<"A", "B", "C", "D", "E", "F", "G", "H", "I", "J", "K", "L", "M", "N", "O", "P", "Q", "R", "S", "T", "U", "V", "W", "X", "Y", "Z">>
LowerLetters == <<"a", "b", "c", "d", "e", "f", "g", "h", "i", "j", "k", "l", "m", "n", "o", "p", "q", "r", "s", "t", "u", "v", "w", "x", "y", "z">>

\* str.lower() on one character
lower_char(c) ==
  IF \E k \in 1..26 : UpperLetters[k] = c
  THEN LowerLetters[CHOOSE k \in 1..26 : UpperLetters[k] = c]
  ELSE c

\* str.lower()
lower(s) == [i \in 1..Len(s) |-> lower_char(s[i])] \o <<>>

IsDigits(s) == \A i \in 1..Len(s) : s[i] \in Digits

DigitValue(c) == CHOOSE v \in 0..9 : <<"0", "1", "2", "3", "4", "5", "6", "7", "8", "9">>[v + 1] = c

\* int() of a string of digits
RECURSIVE DecimalValue(_)
DecimalValue(s) ==
  IF s = <<>> THEN 0
  ELSE DecimalValue(SubSeq(s, 1, Len(s) - 1)) * 10 + DigitValue(s[Len(s)])

RECURSIVE pow10(_)
pow10(k) == IF k = 0 THEN 1 ELSE 10 * pow10(k - 1)

\* index of the first element of seq satisfying P, 0 when there is none
FirstIndex(seq, P(_)) ==
  IF \E i \in 1..Len(seq) : P(seq[i])
  THEN CHOOSE i \in 1..Len(seq) : P(seq[i]) /\ \A j \in 1..(i - 1) : ~P(seq[j])
  ELSE 0

(***************************************************************************)
(* datetime: the proleptic Gregorian ordinal, weekday() and strptime for   *)
(* the two formats the mapper tries.                                       *)
(***************************************************************************)
is_leap(y) == y % 4 = 0 /\ (y % 100 # 0 \/ y % 400 = 0)

days_in_month(y, m) ==
  IF m = 2 THEN (IF is_leap(y) THEN 29 ELSE 28)
  ELSE IF m \in {4, 6, 9, 11} THEN 30 ELSE 31

days_before_year(y) ==
  (y - 1) * 365 + ((y - 1) \div 4) - ((y - 1) \div 100) + ((y - 1) \div 400)

days_before_month(y, m) ==
  <<0, 31, 59, 90, 120, 151, 181, 212, 243, 273, 304, 334>>[m]
    + (IF m > 2 /\ is_leap(y) THEN 1 ELSE 0)

\* date(y, m, d).toordinal()
toordinal(y, m, d) == days_before_year(y) + days_before_month(y, m) + d

\* date.weekday(): Monday is 0
weekday(ord) == (ord + 6) % 7

\* re.compile(r'\d{1,2}/\d{1,2}/\d{2,4}'): the split of a match that starts
\* at position p into the lengths <<month, day, year>>, greedy first
DateLengths ==
  <<<<2, 2, 4>>, <<2, 2, 3>>, <<2, 2, 2>>, <<2, 1, 4>>, <<2, 1, 3>>, <<2, 1, 2>>,
    <<1, 2, 4>>, <<1, 2, 3>>, <<1, 2, 2>>, <<1, 1, 4>>, <<1, 1, 3>>, <<1, 1, 2>>>>

DateMatchesAt(s, p, ls) ==
  LET e1 == p + ls[1]
      e2 == e1 + 1 + ls[2]
      e3 == e2 + 1 + ls[3]
  IN /\ e3 - 1 <= Len(s)
     /\ IsDigits(SubSeq(s, p, e1 - 1))
     /\ s[e1] = "/"
     /\ IsDigits(SubSeq(s, e1 + 1, e2 - 1))
     /\ s[e2] = "/"
     /\ IsDigits(SubSeq(s, e2 + 1, e3 - 1))

\* the match object: the three parts and the matched text
DateMatch(s, p, ls) ==
  LET e1 == p + ls[1]
      e2 == e1 + 1 + ls[2]
      e3 == e2 + 1 + ls[3]
  IN [found |-> TRUE, m |-> SubSeq(s, p, e1 - 1), d |-> SubSeq(s, e1 + 1, e2 - 1),
      y |-> SubSeq(s, e2 + 1, e3 - 1), text |-> SubSeq(s, p, e3 - 1)]

NoMatch == [found |-> FALSE]

\* date_pattern.search(s): the leftmost match, NoMatch when there is none
date_pattern_search(s) ==
  LET starts == {p \in 1..Len(s) : \E k \in 1..12 : DateMatchesAt(s, p, DateLengths[k])} IN
  IF starts = {} THEN NoMatch
  ELSE LET p == CHOOSE q \in starts : \A r \in starts : q <= r
           k == CHOOSE j \in 1..12 :
                  /\ DateMatchesAt(s, p, DateLengths[j])
                  /\ \A i \in 1..(j - 1) : ~DateMatchesAt(s, p, DateLengths[i])
       IN DateMatch(s, p, DateLengths[k])

\* datetime.strptime(text, '%m/%d/%Y') then '%m/%d/%y' as the format loop
\* tries them: the ordinal of the first format that parses, ValueError when
\* both raise.  %Y takes exactly four digits, %y exactly two (00-68 are
\* 2000-2068, 69-99 are 1969-1999); the month is 1..12 and the day is a day
\* of that month.
ValueError == 0

strptime_formats(mt) ==
  LET m == DecimalValue(mt.m)
      d == DecimalValue(mt.d)
      yy == DecimalValue(mt.y)
      y == IF Len(mt.y) = 4 THEN yy ELSE IF yy <= 68 THEN 2000 + yy ELSE 1900 + yy
  IN IF /\ Len(mt.y) \in {2, 4}
        /\ m \in 1..12
        /\ y >= 1
        /\ d >= 1 /\ d <= days_in_month(y, m)
     THEN toordinal(y, m, d)
     ELSE ValueError

\* the body of the date loop for one field: the date text when the first
\* match of the field parses to a Monday after today, <<>> otherwise
date_of_field(field, now) ==
  LET match == date_pattern_search(strip(field)) IN
  IF ~match.found THEN <<>>
  ELSE LET parsed_date == strptime_formats(match) IN
       IF parsed_date # ValueError /\ parsed_date > now /\ weekday(parsed_date) = 0
       THEN match.text
       ELSE <<>>

(***************************************************************************)
(* planogram_mapper                                                        *)
(***************************************************************************)
FIELD_NAMES ==
  <<"Table_Name", "Modular_Description", "Field_2", "Width_Inches",
    "Height_Inches", "Depth_Inches", "Field_6", "Offset", "Notch_Bar_Width",
    "Department", "Category", "Effective_Date", "Print_1", "Print_2",
    "Print_3", "Print_4", "File_Name", "Width_Feet", "Segments", "Drawing_ID",
    "Footage", "Trait_Number">>

target_values == {<<"1", "4">>, <<"1", "7">>, <<"2", "0">>, <<"2", "2">>, <<"7", "1">>, <<"7", "4">>}

\* A float is <<n, d>>: with d > 0 the number n / d, with d = 0 the subnormal
\* double of n units of 2^-1074, the least positive double.  <<>> stands for
\* ValueError.

\* the nearest integer to n / d, ties to the even one (n >= 0, d > 0): the
\* rounding of a result that falls between two adjacent doubles
round_half_even(n, d) ==
  IF 2 * (n % d) > d \/ (2 * (n % d) = d /\ (n \div d) % 2 = 1)
  THEN (n \div d) + 1
  ELSE n \div d

\* the numeral [sign] digits [. digits] before any exponent
decimal_of(t) ==
  LET neg == t # <<>> /\ t[1] = "-"
      u == IF t # <<>> /\ t[1] \in {"-", "+"} THEN Tail(t) ELSE t
      dots == {i \in 1..Len(u) : u[i] = "."}
      digs == {i \in 1..Len(u) : u[i] \in Digits}
      frac == IF dots = {} THEN 0 ELSE Len(u) - Max(dots)
      num == DecimalValue(Pick(u, digs))
  IN IF digs = {} \/ Cardinality(dots) > 1 \/ digs \cup dots # 1..Len(u)
     THEN <<>>
     ELSE <<(IF neg THEN 0 - num ELSE num), pow10(frac)>>

\* the exponent [sign] digits after the e: <<value>>, <<>> when malformed
exponent_of(t) ==
  LET neg == t # <<>> /\ t[1] = "-"
      u == IF t # <<>> /\ t[1] \in {"-", "+"} THEN Tail(t) ELSE t
  IN IF u = <<>> \/ ~IsDigits(u) THEN <<>>
     ELSE <<IF neg THEN 0 - DecimalValue(u) ELSE DecimalValue(u)>>

\* m * 10^e as a double.  Down to 10^-6 the value is kept exactly; from
\* 10^-323 down it is a subnormal, rounded to whole units of 2^-1074
\* (10^-323 is 2.024 units).  Exponents between the two, and those that
\* overflow to inf, are not among the inputs.
scaled(m, e) ==
  IF e >= 0 THEN <<m[1] * pow10(e), m[2]>>
  ELSE IF e >= 0 - 6 THEN <<m[1], m[2] * pow10(0 - e)>>
  ELSE IF m[1] >= 0
       THEN <<round_half_even(m[1] * 2024, 1000 * m[2] * pow10(0 - 323 - e)), 0>>
       ELSE <<0 - round_half_even((0 - m[1]) * 2024, 1000 * m[2] * pow10(0 - 323 - e)), 0>>

\* the numeral t whose only e is at position i
float_with_exponent(t, i) ==
  IF decimal_of(SubSeq(t, 1, i - 1)) = <<>> \/ exponent_of(SubSeq(t, i + 1, Len(t))) = <<>>
  THEN <<>>
  ELSE scaled(decimal_of(SubSeq(t, 1, i - 1)), exponent_of(SubSeq(t, i + 1, Len(t)))[1])

\* float(s) for the numerals [sign] digits [. digits] [e [sign] digits],
\* surrounding whitespace ignored: the float, <<>> for ValueError.  (inf, nan,
\* underscores and non-ASCII digits are not among the inputs.)
float_of(s) ==
  LET es == {i \in 1..Len(strip(s)) : strip(s)[i] \in {"e", "E"}}
  IN IF es = {} THEN decimal_of(strip(s))
     ELSE IF Cardinality(es) > 1 THEN <<>>
     ELSE float_with_exponent(strip(s), Max(es))

\* x / n for a float x and a positive integer n: exact for a number n / d,
\* rounded to whole units for a subnormal, where it can reach zero
truediv(x, n) ==
  IF x[2] # 0 THEN <<x[1], x[2] * n>>
  ELSE IF x[1] >= 0 THEN <<round_half_even(x[1], n), 0>>
  ELSE <<0 - round_half_even(0 - x[1], n), 0>>

\* str(x) of the float x, kept as the float it denotes: "0.0" is
\* <<"float", 0, d>>, a non-empty string
float_str(q) == <<"float", q[1], q[2]>>

\* float() of a value float_str produced
float_of_str(v) == <<v[2], v[3]>>

\* the first field of the pool satisfying P, stripped; <<>> when none
first_stripped(pool, P(_)) ==
  LET i == FirstIndex(pool, P) IN IF i = 0 THEN <<>> ELSE strip(pool[i])

\* category_after with the search starting at the beginning of the pool
\* instead of after the Department position
category_from_start(search_pool, i) ==
  LET is4(f) == Len(strip(f)) = 4 /\ IsDigits(strip(f))
      j == FirstIndex(search_pool, is4)
  IN IF j = 0 THEN <<>> ELSE strip(search_pool[j])

\* the inner loop of indices 9 and 10: the first 4-digit field after i
category_after(search_pool, i) ==
  LET rest == SubSeq(search_pool, i + 1, Len(search_pool))
      is4(f) == Len(strip(f)) = 4 /\ IsDigits(strip(f))
      j == FirstIndex(rest, is4)
  IN IF j = 0 THEN <<>> ELSE strip(rest[j])

\* the date loop of index 11
effective_date(search_pool, now) ==
  LET hit(f) == date_of_field(f, now) # <<>>
      i == FirstIndex(search_pool, hit)
  IN IF i = 0 THEN <<>> ELSE date_of_field(search_pool[i], now)

\* first_seven without the padding of a short row
first_seven_unpadded(flds) ==
  IF Len(flds) >= 7 THEN SubSeq(flds, 1, 7) ELSE flds

\* indices 0-6: fields[:7], a shorter row padded with empty strings
first_seven(flds) ==
  IF Len(flds) >= 7 THEN SubSeq(flds, 1, 7)
  ELSE flds \o [k \in 1..(7 - Len(flds)) |-> <<>>]

\* indices 0-16 were every search to take its field out of the pool: a field
\* one search matched is not seen by the searches after it
mapped_upto_16_consuming(flds, now) ==
  LET search_pool == IF Len(flds) > 7 THEN SubSeq(flds, 8, Len(flds)) ELSE <<>>
      Without(pool, i) == IF i = 0 THEN pool
                          ELSE SubSeq(pool, 1, i - 1) \o SubSeq(pool, i + 1, Len(pool))
      has781(f) == Contains(f, <<"7", ".", "8", "1">>)
      has125(f) == Contains(f, <<"1", ".", "2", "5">>)
      isTarget(f) == strip(f) \in target_values
      hasGeneral(f) == Contains(lower(f), <<"g", "e", "n", "e", "r", "a", "l", "_", "t", "c">>)
      hasListing(f) == Contains(lower(f), <<"p", "r", "o", "d", "u", "c", "t", " ", "l", "i", "s", "t", "i", "n", "g", ".", "p", "s", "t">>)
      hasShelf(f) == Contains(lower(f), <<"s", "h", "e", "l", "f">>) /\ Len(strip(f)) < 20
      hasSeg(f) == Contains(lower(f), <<"n", "r", "_", "p", "_", "c", "_", "s", "e", "g", ".", "p", "s", "y">>)
      hasPsa(f) == Contains(lower(f), <<".", "p", "s", "a">>)
      pool8 == Without(search_pool, FirstIndex(search_pool, has781))
      pool9 == Without(pool8, FirstIndex(pool8, has125))
      i9 == FirstIndex(pool9, isTarget)
      pool12 == Without(pool9, i9)
      pool13 == Without(pool12, FirstIndex(pool12, hasGeneral))
      pool14 == Without(pool13, FirstIndex(pool13, hasListing))
      pool15 == Without(pool14, FirstIndex(pool14, hasShelf))
      pool16 == Without(pool15, FirstIndex(pool15, hasSeg))
  IN first_seven(flds) \o
     << first_stripped(search_pool, has781),
        first_stripped(pool8, has125),
        IF i9 = 0 THEN <<>> ELSE pool9[i9],
        IF i9 = 0 THEN <<>> ELSE category_after(pool9, i9),
        effective_date(pool12, now),
        first_stripped(pool12, hasGeneral),
        first_stripped(pool13, hasListing),
        first_stripped(pool14, hasShelf),
        first_stripped(pool15, hasSeg),
        first_stripped(pool16, hasPsa) >>

\* indices 0-16: the first seven fields, then the values found in the pool
mapped_upto_16(flds, now) ==
  LET search_pool == IF Len(flds) > 7 THEN SubSeq(flds, 8, Len(flds)) ELSE <<>>
      has781(f) == Contains(f, <<"7", ".", "8", "1">>)
      has125(f) == Contains(f, <<"1", ".", "2", "5">>)
      isTarget(f) == strip(f) \in target_values
      i9 == FirstIndex(search_pool, isTarget)
      hasGeneral(f) == Contains(lower(f), <<"g", "e", "n", "e", "r", "a", "l", "_", "t", "c">>)
      hasListing(f) == Contains(lower(f), <<"p", "r", "o", "d", "u", "c", "t", " ", "l", "i", "s", "t", "i", "n", "g", ".", "p", "s", "t">>)
      hasShelf(f) == Contains(lower(f), <<"s", "h", "e", "l", "f">>) /\ Len(strip(f)) < 20
      hasSeg(f) == Contains(lower(f), <<"n", "r", "_", "p", "_", "c", "_", "s", "e", "g", ".", "p", "s", "y">>)
      hasPsa(f) == Contains(lower(f), <<".", "p", "s", "a">>)
  IN first_seven(flds) \o
     << first_stripped(search_pool, has781),
        first_stripped(search_pool, has125),
        IF i9 = 0 THEN <<>> ELSE search_pool[i9],
        IF i9 = 0 THEN <<>> ELSE category_after(search_pool, i9),
        effective_date(search_pool, now),
        first_stripped(search_pool, hasGeneral),
        first_stripped(search_pool, hasListing),
        first_stripped(search_pool, hasShelf),
        first_stripped(search_pool, hasSeg),
        first_stripped(search_pool, hasPsa) >>

\* index 17: Field_3 divided by 12, '' when it is 0, empty or no number
idx_17_value(mapped_list) ==
  LET field_3_value == IF Len(mapped_list) > 3 THEN mapped_list[4] ELSE <<>>
      field_3_numeric == IF field_3_value # <<>> THEN float_of(field_3_value) ELSE <<0, 1>>
  IN IF field_3_numeric = <<>> \/ field_3_numeric[1] = 0 THEN <<>>
     ELSE float_str(truediv(field_3_numeric, 12))

\* index 18: index 17 divided by 4, from the value index 17 was given
idx_18_value(value_17) ==
  LET idx_17_numeric == IF value_17 # <<>> THEN float_of_str(value_17) ELSE <<0, 1>>
  IN IF idx_17_numeric[1] = 0 THEN <<>>
     ELSE float_str(truediv(idx_17_numeric, 4))

\* mapped[16] if len(mapped) > 16 else ''
idx_16_text(mapped_list) == IF Len(mapped_list) > 16 THEN mapped_list[17] ELSE <<>>

\* index 19: the first 5 digits of the text of index 16
idx_19_value(text) ==
  LET digits_only == Pick(text, {i \in 1..Len(text) : text[i] \in Digits})
  IN IF Len(digits_only) >= 5 THEN SubSeq(digits_only, 1, 5) ELSE digits_only

\* index 20: characters 6, 7, 8 of the text of index 16
idx_20_value(text) == IF Len(text) >= 8 THEN SubSeq(text, 6, 8) ELSE <<>>

\* text.split('_', 1)[1]: what follows the first underscore of a text having one
after_underscore(text) ==
  SubSeq(text, (CHOOSE i \in 1..Len(text) : text[i] = "_" /\ \A j \in 1..(i - 1) : text[j] # "_") + 1,
         Len(text))

\* every digit of t before its first letter
digits_before_letter(t) ==
  LET letters == {i \in 1..Len(t) : \E k \in 1..26 : t[i] \in {UpperLetters[k], LowerLetters[k]}}
      stop == IF letters = {} THEN Len(t) + 1 ELSE CHOOSE i \in letters : \A j \in letters : i <= j
  IN Pick(t, {i \in 1..(stop - 1) : t[i] \in Digits})

\* re.match(r'^(\d+)', t).group(1), '' when t does not start with a digit
leading_digits(t) ==
  IF \A i \in 1..Len(t) : t[i] \in Digits THEN t
  ELSE SubSeq(t, 1, (CHOOSE i \in 1..Len(t) : t[i] \notin Digits
                                              /\ \A j \in 1..(i - 1) : t[j] \in Digits) - 1)

\* index 21: the digits that follow the first underscore of the text of index 16
idx_21_value(text) ==
  IF \E i \in 1..Len(text) : text[i] = "_" THEN leading_digits(after_underscore(text)) ELSE <<>>

\* mapped.append(v)
append(mapped_list, v) == Append(mapped_list, v)

append_17(mapped_list) == append(mapped_list, idx_17_value(mapped_list))
append_18(mapped_list) == append(mapped_list, idx_18_value(mapped_list[Len(mapped_list)]))
append_19(mapped_list) == append(mapped_list, idx_19_value(idx_16_text(mapped_list)))
append_20(mapped_list) == append(mapped_list, idx_20_value(idx_16_text(mapped_list)))
append_21(mapped_list) == append(mapped_list, idx_21_value(idx_16_text(mapped_list)))

\* the list `mapped` at the end of the function
smart_map_list(flds, now) ==
  append_21(append_20(append_19(append_18(append_17(mapped_upto_16(flds, now))))))

\* FIELD_NAMES.get(i, f'Field_{i}'), i counted from 0
field_name(i) == IF i < Len(FIELD_NAMES) THEN FIELD_NAMES[i + 1] ELSE "Field_" \o ToString(i)

\* smart_map_planogram_fields: the dictionary from field names to values;
\* a later entry of the list overwrites an earlier one of the same name
result_dict(mapped_list) ==
  [n \in {field_name(i - 1) : i \in 1..Len(mapped_list)} |->
     mapped_list[Max({i \in 1..Len(mapped_list) : field_name(i - 1) = n})]]

smart_map_planogram_fields(flds, now) == result_dict(smart_map_list(flds, now))

(***************************************************************************)
(* product_psa_reader.parse_psa_line                                       *)
(***************************************************************************)
\* parse_psa_step with the escape branch keeping the backslash in the field
parse_psa_step_keeps_backslash(ln, st) ==
  IF st.i > Len(ln) THEN st
  ELSE LET char == ln[st.i] IN
    IF char = backslash /\ st.i + 1 <= Len(ln)
    THEN [i |-> st.i + 2, fields |-> st.fields,
          current_field |-> st.current_field \o <<char, ln[st.i + 1]>>]
    ELSE IF char = ","
    THEN [i |-> st.i + 1, fields |-> Append(st.fields, st.current_field),
          current_field |-> <<>>]
    ELSE [i |-> st.i + 1, fields |-> st.fields,
          current_field |-> Append(st.current_field, char)]

\* one iteration of the while loop; st.i is the 1-based index of the loop
parse_psa_step(ln, st) ==
  IF st.i > Len(ln) THEN st
  ELSE LET char == ln[st.i] IN
    IF char = backslash /\ st.i + 1 <= Len(ln)
    THEN [i |-> st.i + 2, fields |-> st.fields,
          current_field |-> Append(st.current_field, ln[st.i + 1])]
    ELSE IF char = ","
    THEN [i |-> st.i + 1, fields |-> Append(st.fields, st.current_field),
          current_field |-> <<>>]
    ELSE [i |-> st.i + 1, fields |-> st.fields,
          current_field |-> Append(st.current_field, char)]

parse_psa_step4(ln, st) ==
  parse_psa_step(ln, parse_psa_step(ln, parse_psa_step(ln, parse_psa_step(ln, st))))

\* the while loop, eight iterations to an unfolding
RECURSIVE parse_psa_loop(_, _)
parse_psa_loop(ln, st) ==
  IF st.i > Len(ln) THEN st
  ELSE parse_psa_loop(ln, parse_psa_step4(ln, parse_psa_step4(ln, st)))

parse_psa_line(ln) ==
  LET st == parse_psa_loop(ln, [i |-> 1, fields |-> <<>>, current_field |-> <<>>]) IN
  IF st.current_field # <<>> \/ (ln # <<>> /\ ln[Len(ln)] = ",")
  THEN Append(st.fields, st.current_field)
  ELSE st.fields

(***************************************************************************)
(* planogram_psa_reader                                                    *)
(***************************************************************************)
\* an iteration that does not split at a comma right after a backslash
parse_csv_step_backslash_escapes(ln, st) ==
  IF st.i > Len(ln) THEN st
  ELSE LET char == ln[st.i] IN
    IF char = "\""
    THEN [st EXCEPT !.i = @ + 1, !.in_quotes = ~@]
    ELSE IF char = "," /\ ~st.in_quotes /\ ~(st.i > 1 /\ ln[st.i - 1] = backslash)
    THEN [st EXCEPT !.i = @ + 1, !.fields = Append(@, st.current), !.current = <<>>]
    ELSE [st EXCEPT !.i = @ + 1, !.current = Append(@, char)]

\* one iteration of the for loop of parse_csv_line
parse_csv_step(ln, st) ==
  IF st.i > Len(ln) THEN st
  ELSE LET char == ln[st.i] IN
    IF char = "\""
    THEN [st EXCEPT !.i = @ + 1, !.in_quotes = ~@]
    ELSE IF char = "," /\ ~st.in_quotes
    THEN [st EXCEPT !.i = @ + 1, !.fields = Append(@, st.current), !.current = <<>>]
    ELSE [st EXCEPT !.i = @ + 1, !.current = Append(@, char)]

parse_csv_step4(ln, st) ==
  parse_csv_step(ln, parse_csv_step(ln, parse_csv_step(ln, parse_csv_step(ln, st))))

\* the for loop, eight iterations to an unfolding
RECURSIVE parse_csv_loop(_, _)
parse_csv_loop(ln, st) ==
  IF st.i > Len(ln) THEN st
  ELSE parse_csv_loop(ln, parse_csv_step4(ln, parse_csv_step4(ln, st)))

parse_csv_line(ln) ==
  LET st == parse_csv_loop(ln, [i |-> 1, fields |-> <<>>, current |-> <<>>,
                                in_quotes |-> FALSE])
  IN Append(st.fields, st.current)

\* field.strip().startswith(('{', '<'))
starts_with_marker(f) ==
  LET t == strip(f) IN t # <<>> /\ t[1] \in {"{", "<"}

is_long_text(f) == Len(f) > 100 \/ starts_with_marker(f)

\* merge_stop stopping at the first field that is not long-text by the test
\* of the outer loop
RECURSIVE merge_stop_at_not_long_text(_, _)
merge_stop_at_not_long_text(flds, j) ==
  IF j > Len(flds) THEN j
  ELSE IF ~is_long_text(flds[j]) THEN j
  ELSE merge_stop_at_not_long_text(flds, j + 1)

\* the inner while loop: the index at which merging stops
RECURSIVE merge_stop(_, _)
merge_stop(flds, j) ==
  IF j > Len(flds) THEN j
  ELSE IF Len(flds[j]) < 50 /\ ~starts_with_marker(flds[j]) THEN j
  ELSE merge_stop(flds, j + 1)

\* fields[i], fields[i+1], ..., fields[j-1] joined with single spaces
RECURSIVE merged_field(_, _, _)
merged_field(flds, i, j) ==
  IF j = i + 1 THEN flds[i]
  ELSE merged_field(flds, i, j - 1) \o <<" ">> \o flds[j - 1]

\* the outer while loop from index i on
RECURSIVE merge_from(_, _)
merge_from(flds, i) ==
  IF i > Len(flds) THEN <<>>
  ELSE IF is_long_text(flds[i])
  THEN LET j == merge_stop(flds, i + 1) IN <<merged_field(flds, i, j)>> \o merge_from(flds, j)
  ELSE <<flds[i]>> \o merge_from(flds, i + 1)

merge_long_text_fields(flds) == merge_from(flds, 1)

\* filter of a sequence, order kept
SelectLines(lines, P(_)) == Pick(lines, {i \in 1..Len(lines) : P(lines[i])})

\* read_planogram_rows_from_bytes with the table-kind token removed
read_planogram_rows_without_token(lines) ==
  LET sel == SelectLines(lines, LAMBDA ln : StartsWith(ln, <<"P", "l", "a", "n", "o", "g", "r", "a", "m", ",">>)) IN
  [k \in 1..Len(sel) |-> Tail(merge_long_text_fields(parse_csv_line(sel[k])))] \o <<>>

read_planogram_rows_from_bytes(lines) ==
  LET sel == SelectLines(lines, LAMBDA ln : StartsWith(ln, <<"P", "l", "a", "n", "o", "g", "r", "a", "m", ",">>)) IN
  [k \in 1..Len(sel) |-> merge_long_text_fields(parse_csv_line(sel[k]))] \o <<>>

(***************************************************************************)
(* product_psa_reader.read_product_rows_from_bytes                         *)
(***************************************************************************)
\* read_product_rows_from_bytes reading the header lines as well
read_product_rows_with_header(lines) ==
  LET all == [k \in 1..Len(lines) |-> parse_psa_line(lines[k])] \o <<>>
  IN SelectLines(all, LAMBDA f : f # <<>> /\ f[1] = <<"P", "r", "o", "d", "u", "c", "t">>)

\* lines[3:] are parsed; the rows whose first field is 'Product' are kept whole
read_product_rows_from_bytes(lines) ==
  LET body == SubSeq(lines, 4, Len(lines))
      all == [k \in 1..Len(body) |-> parse_psa_line(body[k])] \o <<>>
  IN SelectLines(all, LAMBDA f : f # <<>> /\ f[1] = <<"P", "r", "o", "d", "u", "c", "t">>)

(***************************************************************************)
(* fixture_psa_reader.read_fixture_rows_from_bytes, which is also the      *)
(* first step of fixture_mapper.extract_and_map_fixture                    *)
(***************************************************************************)
\* str.split(','), scanning the line: one character
split_comma_step(ln, st) ==
  IF st.i > Len(ln) THEN st
  ELSE IF ln[st.i] = ","
  THEN [i |-> st.i + 1, parts |-> Append(st.parts, st.current), current |-> <<>>]
  ELSE [i |-> st.i + 1, parts |-> st.parts, current |-> Append(st.current, ln[st.i])]

split_comma_step4(ln, st) ==
  split_comma_step(ln, split_comma_step(ln, split_comma_step(ln, split_comma_step(ln, st))))

RECURSIVE split_comma_loop(_, _)
split_comma_loop(ln, st) ==
  IF st.i > Len(ln) THEN st
  ELSE split_comma_loop(ln, split_comma_step4(ln, split_comma_step4(ln, st)))

\* str.split(','): the pieces between the commas
split_comma(ln) ==
  LET st == split_comma_loop(ln, [i |-> 1, parts |-> <<>>, current |-> <<>>])
  IN Append(st.parts, st.current)

read_fixture_rows_from_bytes(lines) ==
  LET stripped == [k \in 1..Len(lines) |-> strip(lines[k])] \o <<>>
      sel == SelectLines(stripped, LAMBDA ln : StartsWith(ln, <<"F", "i", "x", "t", "u", "r", "e", ",">>))
  IN [k \in 1..Len(sel) |-> Tail(split_comma(sel[k]))] \o <<>>

(***************************************************************************)
(* Tables and validation results.  A DataFrame is the pair of its column   *)
(* names and its rows; a ValidationResult keeps its name, status and       *)
(* counts.                                                                 *)
(***************************************************************************)
DataFrame(columns, rows) == <<columns, rows>>
Columns(df) == df[1]
Rows(df) == df[2]

\* df[name] for a column the table has: the values of the column, row by row
Column(df, name) ==
  LET c == CHOOSE i \in 1..Len(Columns(df)) : Columns(df)[i] = name
  IN [r \in 1..Len(Rows(df)) |-> Rows(df)[r][c]] \o <<>>

ValidationResult(name, status, errors, passes) ==
  [check_name |-> name, status |-> status, error_count |-> errors, pass_count |-> passes]

CountStatus(results, status) ==
  Cardinality({i \in 1..Len(results) : results[i].status = status})

\* rows padded with empty strings to max_cols
padded_rows(rows, max_cols) ==
  [r \in 1..Len(rows) |->
     [c \in 1..max_cols |-> IF c <= Len(rows[r]) THEN rows[r][c] ELSE <<>>] \o <<>>] \o <<>>

MaxLen(rows) == Max({Len(rows[r]) : r \in 1..Len(rows)})

\* the exception an extraction raises
Raised == "ValueError"

(***************************************************************************)
(* xlsx_writer.create_standard_headers, product_column_remapper            *)
(***************************************************************************)
RawName(i) == "Field_" \o ToString(i)

create_standard_headers(num_fields) ==
  [k \in 1..num_fields |->
     CASE k - 1 = 1 -> "UPC"
       [] k - 1 = 5 -> "Width_Inches"
       [] k - 1 = 6 -> "Height_Inches"
       [] k - 1 = 7 -> "Depth_Inches"
       [] k - 1 = 8 -> "Color"
       [] k - 1 = 237 -> "Front_Overhang_Inches"
       [] OTHER -> RawName(k - 1)] \o <<>>

get_column_mapping ==
  [Field_0 |-> "Table_Name", Field_2 |-> "Item_Number",
   Field_3 |-> "Item_1_Description", Field_12 |-> "Manufacturer",
   Field_17 |-> "Y_Nesting", Field_18 |-> "Z_Nesting", Field_19 |-> "Peg_Holes",
   Field_20 |-> "Peg_Hole_X", Field_21 |-> "Peg_Hole_Y", Field_23 |-> "Peg_Hole_2X",
   Field_24 |-> "Peg_Hole_2Y", Field_30 |-> "Peg_ID", Field_44 |-> "Shape_ID",
   Field_45 |-> "Bitmap_ID_Override", Field_46 |-> "Tray_Width",
   Field_47 |-> "Tray_Height", Field_48 |-> "Tray_Depth", Field_49 |-> "Tray_Wide",
   Field_50 |-> "Tray_High", Field_51 |-> "Tray_Deep", Field_52 |-> "Tray_Total_#",
   Field_54 |-> "Case_Width", Field_55 |-> "Case_Height", Field_56 |-> "Case_Depth",
   Field_60 |-> "Case_Pack", Field_62 |-> "Display_Width",
   Field_63 |-> "Display_Height", Field_64 |-> "Display_Depth",
   Field_70 |-> "Alternate_Width", Field_71 |-> "Alternate_Height",
   Field_72 |-> "Alternate_Depth", Field_118 |-> "Order_Type",
   Field_130 |-> "Has_Alt_UPC", Field_206 |-> "Relay_ID",
   Field_224 |-> "Squeeze_Width", Field_225 |-> "Squeeze_High",
   Field_226 |-> "Squeeze_Deep", Field_227 |-> "Expand_Width",
   Field_228 |-> "Expand_High", Field_229 |-> "Expand_Deep",
   Field_237 |-> "Front_Overhang_Inches"]

\* df.rename(columns=mapping) on the column names
rename_columns(columns, mapping) ==
  [k \in 1..Len(columns) |->
     IF columns[k] \in DOMAIN mapping THEN mapping[columns[k]] ELSE columns[k]] \o <<>>

\* remap_and_clean_columns without the removal of the unmapped columns
remap_keep_all_columns(df) ==
  DataFrame(rename_columns(Columns(df), get_column_mapping), Rows(df))

\* col.startswith('Field_') is membership in `raw`: the names that begin with
\* 'Field_' in a table of n positional columns are Field_0 .. Field_(n-1); no
\* name given by create_standard_headers or by the rename map begins so
remap_and_clean_columns(df) ==
  LET df_remapped == rename_columns(Columns(df), get_column_mapping)
      n == Len(df_remapped)
      raw == {RawName(i) : i \in 0..(n - 1)}
      keep == SelectSeq([k \in 1..n |-> k], LAMBDA k : df_remapped[k] \notin raw)
  IN DataFrame([k \in 1..Len(keep) |-> df_remapped[keep[k]]] \o <<>>,
               [r \in 1..Len(Rows(df)) |->
                  [k \in 1..Len(keep) |-> Rows(df)[r][keep[k]]] \o <<>>] \o <<>>)

(***************************************************************************)
(* product_validator.DataValidator                                         *)
(***************************************************************************)
check_relay_id_uniformity(df) ==
  IF \A k \in 1..Len(Columns(df)) : Columns(df)[k] # "Relay_ID"
  THEN ValidationResult("Relay_ID Uniformity", "WARNING", 0, 0)
  ELSE LET values == Column(df, "Relay_ID")
           n == Len(values)
           unique_relay_ids == {values[r] : r \in 1..n}
           count(v) == Cardinality({r \in 1..n : values[r] = v})
           most == Max({count(v) : v \in unique_relay_ids})
       IN IF unique_relay_ids = {}
          THEN ValidationResult("Relay_ID Uniformity", "WARNING", 0, 0)
          ELSE IF Cardinality(unique_relay_ids) = 1
          THEN ValidationResult("Relay_ID Uniformity", "PASS", 0, n)
          ELSE ValidationResult("Relay_ID Uniformity", "FAIL", n - most, most)

\* 'name' in df.columns
HasColumn(df, name) == \E k \in 1..Len(Columns(df)) : Columns(df)[k] = name

\* df[name] at row r
Cell(df, r, name) == Column(df, name)[r]

\* pd.to_numeric(..., errors='coerce') of a cell of text: the float, <<>> for
\* NaN.  (The cells considered carry no surrounding whitespace.)
to_numeric(v) == float_of(v)

\* x == k for a converted cell x and an integer k; False for NaN
equals(x, k) == x # <<>> /\ x[1] = k * x[2]

\* x < y and x <= y for converted cells; False when either is NaN
less(x, y) == x # <<>> /\ y # <<>> /\ x[1] * y[2] < y[1] * x[2]
less_equal(x, y) == x # <<>> /\ y # <<>> /\ x[1] * y[2] <= y[1] * x[2]

\* x > 0 for a converted cell; False for NaN
positive(x) == x # <<>> /\ x[1] > 0

\* a check that reports FAIL whatever it found
counted_fail_on_none(check_name, df, error_rows) ==
  ValidationResult(check_name, "FAIL", Cardinality(error_rows),
                   Len(Rows(df)) - Cardinality(error_rows))

\* the result of a check that found the rows of error_rows in error: no
\* row, PASS with pass_count=len(self.df); else FAIL with the rows counted
counted(check_name, df, error_rows) ==
  IF error_rows = {}
  THEN ValidationResult(check_name, "PASS", 0, Len(Rows(df)))
  ELSE ValidationResult(check_name, "FAIL", Cardinality(error_rows),
                        Len(Rows(df)) - Cardinality(error_rows))

check_upc_length(df) ==
  IF ~HasColumn(df, "UPC")
  THEN ValidationResult("UPC Length (13 digits)", "WARNING", 0, 0)
  ELSE LET \* no cell of text is null: null_upcs is empty
           total_errors == Cardinality({r \in 1..Len(Rows(df)) : Len(Cell(df, r, "UPC")) # 13})
       IN IF total_errors = 0
          THEN ValidationResult("UPC Length (13 digits)", "PASS", 0, Len(Rows(df)))
          ELSE ValidationResult("UPC Length (13 digits)", "FAIL", total_errors, 0)

check_order_type_invalid_values(df) ==
  LET invalid_values == {<<"0", "3">>, <<"0", "7">>, <<"4", "3">>, <<"3">>, <<"7">>} IN
  IF ~HasColumn(df, "Order_Type")
  THEN ValidationResult("Order_Type Invalid Values", "WARNING", 0, 0)
  ELSE counted("Order_Type Invalid Values", df,
               {r \in 1..Len(Rows(df)) : Cell(df, r, "Order_Type") \in invalid_values})

\* a Peg_Hole_X check that counts the compared rows only
check_peg_hole_x_of_compared(df) ==
  IF ~HasColumn(df, "Peg_Hole_X") \/ ~HasColumn(df, "Width_Inches")
  THEN ValidationResult("Peg_Hole_X vs Width", "WARNING", 0, Len(Rows(df)))
  ELSE LET peg_hole_x(r) == to_numeric(Cell(df, r, "Peg_Hole_X"))
           width(r) == to_numeric(Cell(df, r, "Width_Inches"))
           valid_mask == {r \in 1..Len(Rows(df)) : positive(peg_hole_x(r)) /\ positive(width(r))}
           error_mask == {r \in valid_mask : less_equal(width(r), peg_hole_x(r))}
       IN ValidationResult("Peg_Hole_X vs Width",
                           IF error_mask = {} THEN "PASS" ELSE "FAIL",
                           Cardinality(error_mask),
                           Cardinality(valid_mask) - Cardinality(error_mask))
          @@ [checked_count |-> Cardinality(valid_mask)]

check_peg_hole_x_vs_width(df) ==
  IF ~HasColumn(df, "Peg_Hole_X") \/ ~HasColumn(df, "Width_Inches")
  THEN ValidationResult("Peg_Hole_X vs Width", "WARNING", 0, Len(Rows(df)))
  ELSE LET peg_hole_x(r) == to_numeric(Cell(df, r, "Peg_Hole_X"))
           width(r) == to_numeric(Cell(df, r, "Width_Inches"))
           valid_mask == {r \in 1..Len(Rows(df)) : positive(peg_hole_x(r)) /\ positive(width(r))}
       IN counted("Peg_Hole_X vs Width", df,
                  {r \in valid_mask : less_equal(width(r), peg_hole_x(r))})
          @@ [checked_count |-> Cardinality(valid_mask)]

check_peg_hole_2x_position(df) ==
  IF ~HasColumn(df, "Peg_Hole_2X") \/ ~HasColumn(df, "Peg_Holes") \/ ~HasColumn(df, "Width_Inches")
  THEN ValidationResult("Peg_Hole_2X Position", "WARNING", 0, Len(Rows(df)))
  ELSE LET peg_hole_2x(r) == to_numeric(Cell(df, r, "Peg_Hole_2X"))
           peg_holes(r) == to_numeric(Cell(df, r, "Peg_Holes"))
           width(r) == to_numeric(Cell(df, r, "Width_Inches"))
           valid_mask == {r \in 1..Len(Rows(df)) : positive(peg_hole_2x(r))}
       IN counted("Peg_Hole_2X Position", df,
                  {r \in valid_mask :
                     ~(less(peg_holes(r), peg_hole_2x(r)) /\ less(peg_hole_2x(r), width(r)))})
          @@ [checked_count |-> Cardinality(valid_mask)]

\* check_height_inches_invalid, check_width_inches_invalid and
\* check_depth_inches_invalid: the check on column, the three differing in
\* the column and the name only
check_inches_invalid(df, check_name, column) ==
  IF ~HasColumn(df, column)
  THEN ValidationResult(check_name, "WARNING", 0, 0)
  ELSE LET \* self.df.get(name, pd.Series([None] * len(self.df)))
           get(r, name) == IF HasColumn(df, name) THEN to_numeric(Cell(df, r, name)) ELSE <<>>
           value(r) == to_numeric(Cell(df, r, column))
           null_or_zero == {r \in 1..Len(Rows(df)) : value(r) = <<>> \/ equals(value(r), 0)}
           equals_one == {r \in 1..Len(Rows(df)) : equals(value(r), 1)}
           all_equal_two == {r \in 1..Len(Rows(df)) :
                               /\ equals(get(r, "Height_Inches"), 2)
                               /\ equals(get(r, "Width_Inches"), 2)
                               /\ equals(get(r, "Depth_Inches"), 2)}
       IN counted(check_name, df, null_or_zero \cup equals_one \cup all_equal_two)

\* an exact-value check that leaves the rows without a number out
check_must_equal_one_skips_null(df, check_name, column) ==
  IF ~HasColumn(df, column)
  THEN ValidationResult(check_name, "WARNING", 0, 0)
  ELSE LET value(r) == to_numeric(Cell(df, r, column))
           error_mask == {r \in 1..Len(Rows(df)) : value(r) # <<>> /\ ~equals(value(r), 1)}
       IN counted(check_name, df, error_mask)
          @@ [null_count |-> 0,
              zero_count |-> Cardinality({r \in 1..Len(Rows(df)) : equals(value(r), 0)}),
              other_count |-> 0]

\* check_squeeze_high_must_equal_one and its five siblings: the check on
\* column, the six differing in the column and the name only.  A FAIL
\* carries the tallies its details report.
check_must_equal_one(df, check_name, column) ==
  IF ~HasColumn(df, column)
  THEN ValidationResult(check_name, "WARNING", 0, 0)
  ELSE LET value(r) == to_numeric(Cell(df, r, column))
           error_mask == {r \in 1..Len(Rows(df)) : ~equals(value(r), 1)}
       IN IF error_mask = {}
          THEN counted(check_name, df, error_mask)
          ELSE counted(check_name, df, error_mask)
               @@ [null_count |-> Cardinality({r \in 1..Len(Rows(df)) : value(r) = <<>>}),
                   zero_count |-> Cardinality({r \in 1..Len(Rows(df)) : equals(value(r), 0)}),
                   other_count |-> Cardinality({r \in 1..Len(Rows(df)) :
                                                 /\ value(r) # <<>>
                                                 /\ ~equals(value(r), 0)
                                                 /\ ~equals(value(r), 1)})]

check_front_overhang_inches_less_than_one(df) ==
  IF ~HasColumn(df, "Front_Overhang_Inches")
  THEN ValidationResult("Front_Overhang_Inches Less Than 1", "WARNING", 0, 0)
  ELSE LET front_overhang(r) == to_numeric(Cell(df, r, "Front_Overhang_Inches"))
       IN counted("Front_Overhang_Inches Less Than 1", df,
                  {r \in 1..Len(Rows(df)) :
                     front_overhang(r) = <<>> \/ less_equal(<<1, 1>>, front_overhang(r))})

check_peg_id_required_when_peg_holes_exist(df) ==
  LET required_cols == {"Peg_Hole_X", "Peg_Hole_Y", "Peg_Hole_2X", "Peg_Hole_2Y", "Peg_ID"} IN
  IF \E col \in required_cols : ~HasColumn(df, col)
  THEN ValidationResult("Peg_ID Required When Peg Holes Exist", "WARNING", 0, Len(Rows(df)))
  ELSE LET has_any_peg_hole(r) ==
             \E col \in {"Peg_Hole_X", "Peg_Hole_Y", "Peg_Hole_2X", "Peg_Hole_2Y"} :
                positive(to_numeric(Cell(df, r, col)))
           peg_id_is_null(r) == strip(Cell(df, r, "Peg_ID")) = <<>>
       IN counted("Peg_ID Required When Peg Holes Exist", df,
                  {r \in 1..Len(Rows(df)) : has_any_peg_hole(r) /\ peg_id_is_null(r)})

check_alt_upc_must_be_null(df) ==
  IF ~HasColumn(df, "Has_Alt_UPC")
  THEN ValidationResult("Has_Alt_UPC Must Be Null", "WARNING", 0, 0)
  ELSE counted("Has_Alt_UPC Must Be Null", df,
               {r \in 1..Len(Rows(df)) :
                  /\ strip(Cell(df, r, "Has_Alt_UPC")) # <<>>
                  /\ lower(Cell(df, r, "Has_Alt_UPC")) # <<"n", "a", "n">>})

(***************************************************************************)
(* The Excel reference file.  excel_reference_bytes is None, b'' or the    *)
(* bytes of a file; a file is an unreadable one or a workbook of one       *)
(* sheet, the sheet a table whose cells are kept as astype(str) gives      *)
(* them.                                                                   *)
(***************************************************************************)
NoReference == <<"None">>
EmptyBytes == <<"bytes">>
Unreadable == <<"bytes", "unreadable">>
Workbook(sheet_name, sheet) == <<"bytes", "xlsx", sheet_name, sheet>>

\* if self.excel_reference_bytes
provided(excel_reference_bytes) == Len(excel_reference_bytes) > 1

\* pd.read_excel(io.BytesIO(excel_reference_bytes), sheet_name='handoff')
\* raises for a file that is no workbook and for a workbook without the sheet
read_excel_raises(excel_reference_bytes) ==
  excel_reference_bytes[2] # "xlsx" \/ excel_reference_bytes[3] # "handoff"

read_excel(excel_reference_bytes) == excel_reference_bytes[4]

check_has_alt_upc_against_excel_reference(df, excel_reference_bytes) ==
  IF ~provided(excel_reference_bytes)
  THEN ValidationResult("Has_Alt_UPC Match Against Reference File", "WARNING", 0, 0)
  ELSE IF read_excel_raises(excel_reference_bytes)
  THEN ValidationResult("Has_Alt_UPC Match Against Reference File", "FAIL", 1, 0)
  ELSE IF ~HasColumn(read_excel(excel_reference_bytes), "Has_Alt_UPC")
  THEN ValidationResult("Has_Alt_UPC Match Against Reference File", "FAIL", 1, 0)
  ELSE IF ~HasColumn(df, "Has_Alt_UPC")
  THEN ValidationResult("Has_Alt_UPC Match Against Reference File", "WARNING", 0, 0)
  ELSE LET total_products_with_alt_upc ==
             Cardinality({r \in 1..Len(Rows(df)) : strip(Cell(df, r, "Has_Alt_UPC")) # <<>>})
           excel_df == read_excel(excel_reference_bytes)
           non_no_values == {r \in 1..Len(Rows(excel_df)) :
                               lower(strip(Cell(excel_df, r, "Has_Alt_UPC"))) # <<"n", "o">>}
       IN IF total_products_with_alt_upc = 0
          THEN ValidationResult("Has_Alt_UPC Match Against Reference File", "PASS", 0, Len(Rows(df)))
          ELSE IF non_no_values # {}
          THEN ValidationResult("Has_Alt_UPC Match Against Reference File", "FAIL",
                                total_products_with_alt_upc, 0)
          ELSE ValidationResult("Has_Alt_UPC Match Against Reference File", "PASS",
                                0, total_products_with_alt_upc)

\* run_all_checks: self.results after the 17 checks, and the reference
\* check when reference bytes were given, in registry order
product_run_all_checks(df, excel_reference_bytes) ==
  << check_relay_id_uniformity(df),
     check_upc_length(df),
     check_order_type_invalid_values(df),
     check_peg_hole_x_vs_width(df),
     check_peg_hole_2x_position(df),
     check_inches_invalid(df, "Height_Inches Invalid Values", "Height_Inches"),
     check_inches_invalid(df, "Width_Inches Invalid Values", "Width_Inches"),
     check_inches_invalid(df, "Depth_Inches Invalid Values", "Depth_Inches"),
     check_must_equal_one(df, "Squeeze_High Must Equal 1", "Squeeze_High"),
     check_must_equal_one(df, "Expand_Wide Must Equal 1", "Expand_Width"),
     check_must_equal_one(df, "Expand_High Must Equal 1", "Expand_High"),
     check_must_equal_one(df, "Squeeze_Deep Must Equal 1", "Squeeze_Deep"),
     check_must_equal_one(df, "Squeeze_Wide Must Equal 1", "Squeeze_Width"),
     check_must_equal_one(df, "Expand_Deep Must Equal 1", "Expand_Deep"),
     check_front_overhang_inches_less_than_one(df),
     check_peg_id_required_when_peg_holes_exist(df),
     check_alt_upc_must_be_null(df) >>
  \o (IF provided(excel_reference_bytes)
      THEN <<check_has_alt_upc_against_excel_reference(df, excel_reference_bytes)>>
      ELSE <<>>)

RECURSIVE SumErrors(_)
SumErrors(results) ==
  IF results = <<>> THEN 0 ELSE results[1].error_count + SumErrors(Tail(results))

product_get_summary(results) ==
  [total_checks |-> Len(results),
   passed |-> CountStatus(results, "PASS"),
   failed |-> CountStatus(results, "FAIL"),
   warnings |-> CountStatus(results, "WARNING"),
   total_errors |-> SumErrors(results),
   overall_status |-> IF CountStatus(results, "FAIL") = 0 THEN "PASS" ELSE "FAIL"]

(***************************************************************************)
(* product_extractor.extract_product_data                                  *)
(***************************************************************************)
\* steps 2 and 3 of extract_product_data: the table of the rows read
product_df_cleaned(product_rows) ==
  remap_and_clean_columns(
    DataFrame(create_standard_headers(MaxLen(product_rows)),
              padded_rows(product_rows, MaxLen(product_rows))))

\* step 4 of extract_product_data: the table, its results, their summary
product_validated(df_cleaned, validation_results) ==
  <<df_cleaned, validation_results, product_get_summary(validation_results)>>

extract_product_data(lines) ==
  IF read_product_rows_from_bytes(lines) = <<>> THEN Raised
  ELSE product_validated(
         product_df_cleaned(read_product_rows_from_bytes(lines)),
         product_run_all_checks(product_df_cleaned(read_product_rows_from_bytes(lines)),
                                NoReference))

(***************************************************************************)
(* planogram_validator.DataValidator                                       *)
(***************************************************************************)
check_print_fields_populated(df) ==
  LET print_fields == {"Print_1", "Print_2", "Print_3", "Print_4"}
      present == {Columns(df)[k] : k \in 1..Len(Columns(df))}
      total_rows == Len(Rows(df))
      failed_rows == {r \in 1..total_rows :
                        \E f \in print_fields : strip(Column(df, f)[r]) = <<>>}
  IN IF ~(print_fields \subseteq present)
     THEN ValidationResult("Print Fields Populated (ALL 4 Required)", "WARNING", 0, 0)
     ELSE IF failed_rows = {}
     THEN ValidationResult("Print Fields Populated (ALL 4 Required)", "PASS", 0, total_rows)
     ELSE ValidationResult("Print Fields Populated (ALL 4 Required)", "FAIL",
                           Cardinality(failed_rows), total_rows - Cardinality(failed_rows))

\* float(str(value).strip()) of a cell: a cell the mapper computed holds the
\* text of a float, any other is parsed; <<>> for ValueError
float_of_cell(v) ==
  IF v # <<>> /\ v[1] = "float" THEN float_of_str(v) ELSE float_of(v)

\* abs(x - y) > 0.01 for two floats; a subnormal is counted as zero
differ(x, y) ==
  LET a == IF x[2] = 0 THEN <<0, 1>> ELSE x
      b == IF y[2] = 0 THEN <<0, 1>> ELSE y
      d == a[1] * b[2] - b[1] * a[2]
  IN 100 * (IF d < 0 THEN 0 - d ELSE d) > a[2] * b[2]

\* the result of a check that collected failed_rows: none, PASS with every
\* row counted; else FAIL with error_count = len(failed_rows)
collected(check_name, df, failed_rows) ==
  IF failed_rows = {}
  THEN ValidationResult(check_name, "PASS", 0, Len(Rows(df)))
  ELSE ValidationResult(check_name, "FAIL", Cardinality(failed_rows),
                        Len(Rows(df)) - Cardinality(failed_rows))

check_footage_equals_width_feet(df) ==
  IF ~HasColumn(df, "Footage") \/ ~HasColumn(df, "Width_Feet")
  THEN ValidationResult("Footage Equals Width_Feet", "WARNING", 0, 0)
  ELSE LET footage_float(r) == float_of_cell(Cell(df, r, "Footage"))
           width_feet_float(r) == float_of_cell(Cell(df, r, "Width_Feet"))
       IN collected("Footage Equals Width_Feet", df,
                    {r \in 1..Len(Rows(df)) :
                       \/ footage_float(r) = <<>>
                       \/ width_feet_float(r) = <<>>
                       \/ differ(footage_float(r), width_feet_float(r))})

\* _check_field_not_null(field), which the six checks
\* check_drawing_id_not_null ... check_category_not_null call
check_field_not_null(df, field) ==
  IF ~HasColumn(df, field)
  THEN ValidationResult(field \o " Not Null", "WARNING", 0, 0)
  ELSE collected(field \o " Not Null", df,
                 {r \in 1..Len(Rows(df)) : strip(Cell(df, r, field)) = <<>>})

check_modular_description_alphanumeric(df) ==
  IF ~HasColumn(df, "Modular_Description")
  THEN ValidationResult("Modular_Description Alphanumeric Only", "WARNING", 0, 0)
  ELSE LET allowed == {UpperLetters[k] : k \in 1..26} \cup {LowerLetters[k] : k \in 1..26}
                      \cup Digits \cup Whitespace
           value(r) == Cell(df, r, "Modular_Description")
       IN collected("Modular_Description Alphanumeric Only", df,
                    {r \in 1..Len(Rows(df)) :
                       /\ strip(value(r)) # <<>>
                       /\ \E i \in 1..Len(value(r)) : value(r)[i] \notin allowed})

\* a value kept as it is
keep_zeros(s) == s

\* str(value).lstrip('0') or '0'
RECURSIVE lstrip_zeros(_)
lstrip_zeros(s) ==
  IF s = <<>> THEN <<"0">>
  ELSE IF s[1] = "0" THEN lstrip_zeros(Tail(s))
  ELSE s

\* a reference check that reports WARNING whatever the reference is
reference_check_warns(df, excel_reference_bytes, field) ==
  ValidationResult(field \o " Match Against Reference File", "WARNING", 0, 0)

\* check_department_against_excel_reference and
\* check_category_against_excel_reference: the check on the column field,
\* the two differing in the column and the name only.  The result carries the
\* values its message lists.
check_against_excel_reference(df, excel_reference_bytes, field) ==
  IF ~provided(excel_reference_bytes)
  THEN ValidationResult(field \o " Match Against Reference File", "WARNING", 0, 0)
  ELSE IF read_excel_raises(excel_reference_bytes)
  THEN ValidationResult(field \o " Match Against Reference File", "FAIL", 1, 0)
  ELSE IF ~HasColumn(read_excel(excel_reference_bytes), field)
  THEN ValidationResult(field \o " Match Against Reference File", "FAIL", 1, 0)
  ELSE IF ~HasColumn(df, field)
  THEN ValidationResult(field \o " Match Against Reference File", "WARNING", 0, 0)
  ELSE LET excel_df == read_excel(excel_reference_bytes)
           valid == {lstrip_zeros(Cell(excel_df, r, field)) : r \in 1..Len(Rows(excel_df))}
           planogram_values == {lstrip_zeros(Cell(df, r, field)) : r \in 1..Len(Rows(df))}
           missing == planogram_values \ valid
       IN IF missing # {}
          THEN ValidationResult(field \o " Match Against Reference File", "FAIL",
                                Cardinality(missing),
                                Cardinality(planogram_values) - Cardinality(missing))
               @@ [message_values |-> missing]
          ELSE ValidationResult(field \o " Match Against Reference File", "PASS",
                                0, Cardinality(planogram_values))
               @@ [message_values |-> planogram_values]

\* run_all_checks: self.results after the 9 checks, and the two reference
\* checks when reference bytes were given, in registry order
planogram_run_all_checks(df, excel_reference_bytes) ==
  << check_print_fields_populated(df),
     check_footage_equals_width_feet(df),
     check_field_not_null(df, "Drawing_ID"),
     check_field_not_null(df, "Effective_Date"),
     check_field_not_null(df, "Offset"),
     check_field_not_null(df, "Notch_Bar_Width"),
     check_field_not_null(df, "Department"),
     check_field_not_null(df, "Category"),
     check_modular_description_alphanumeric(df) >>
  \o (IF provided(excel_reference_bytes)
      THEN << check_against_excel_reference(df, excel_reference_bytes, "Department"),
              check_against_excel_reference(df, excel_reference_bytes, "Category") >>
      ELSE <<>>)

planogram_get_summary(results) ==
  [total_checks |-> Len(results),
   passed |-> CountStatus(results, "PASS"),
   failed |-> CountStatus(results, "FAIL"),
   warnings |-> CountStatus(results, "WARNING")]

\* what extract_planogram_data returns for the table df
planogram_returned(df, validation_results) ==
  <<df, validation_results, planogram_get_summary(validation_results)>>

\* step 4 of extract_planogram_data: the table, its results, their summary
planogram_validated(df) == planogram_returned(df, planogram_run_all_checks(df, NoReference))

(***************************************************************************)
(* planogram_extractor.extract_planogram_data                              *)
(***************************************************************************)
planogram_table(planogram_rows, now) ==
  LET mapped_data == [r \in 1..Len(planogram_rows) |->
                        smart_map_planogram_fields(planogram_rows[r], now)]
      \* df = pd.DataFrame(mapped_data)[ordered_columns]
      ordered(mapped_row) == [k \in 1..22 |-> mapped_row[FIELD_NAMES[k]]] \o <<>>
  IN DataFrame(FIELD_NAMES,
               [r \in 1..Len(planogram_rows) |-> ordered(mapped_data[r])] \o <<>>)

\* steps 2 to 4 of extract_planogram_data, on the rows read
planogram_from_rows(planogram_rows, now) ==
  IF planogram_rows = <<>> THEN Raised
  ELSE planogram_validated(planogram_table(planogram_rows, now))

extract_planogram_data(lines, now) ==
  planogram_from_rows(read_planogram_rows_from_bytes(lines), now)

EXPECTED_FIELD_COUNT == 166

(***************************************************************************)
(* fixture_validator                                                       *)
(***************************************************************************)
validate_field_count(fixture_rows) ==
  LET total_rows == Len(fixture_rows) IN
  IF fixture_rows = <<>>
  THEN ValidationResult("Field_Count", "FAIL", 1, 0)
  ELSE LET max_cols == MaxLen(fixture_rows) IN
       IF max_cols # EXPECTED_FIELD_COUNT
       THEN ValidationResult("Field_Count", "FAIL", total_rows, 0)
       ELSE ValidationResult("Field_Count", "PASS", 0, total_rows)

\* r.passed
passed(r) == r.status = "PASS"

\* str.upper()
upper(s) ==
  [i \in 1..Len(s) |->
     IF \E k \in 1..26 : LowerLetters[k] = s[i]
     THEN UpperLetters[CHOOSE k \in 1..26 : LowerLetters[k] = s[i]]
     ELSE s[i]] \o <<>>

\* abs(x - expected) >= 0.01 for a float x and the fraction expected.  (No
\* value considered lies at the tolerance itself.)
off_by(x, expected) ==
  LET d == x[1] * expected[2] - expected[1] * x[2]
  IN 100 * (IF d < 0 THEN 0 - d ELSE d) >= x[2] * expected[2]

\* a test of one cell that lets text that is no number through
wrong_number_unless_unparseable(v, expected) ==
  \/ strip(v) = <<>>
  \/ float_of(v) # <<>> /\ off_by(float_of(v), expected)

\* the tests of one cell against an expected number: null or blank, no
\* number, or off by the tolerance or more
wrong_number(v, expected) ==
  \/ strip(v) = <<>>
  \/ float_of(v) = <<>>
  \/ off_by(float_of(v), expected)

\* a keyed check that counts no row when it has none to check
keyed_counting_checked(check_name, df, checked, failed_rows) ==
  IF failed_rows = {}
  THEN ValidationResult(check_name, "PASS", 0, Cardinality(checked))
  ELSE ValidationResult(check_name, "FAIL", Cardinality(failed_rows),
                        Cardinality(checked) - Cardinality(failed_rows))

\* the result of a Fixture check that collected failed_rows among checked
\* rows of the table: nothing to check, PASS with pass_count=total_rows;
\* no failure, PASS with the checked rows; else FAIL
keyed(check_name, df, checked, failed_rows) ==
  IF checked = {}
  THEN ValidationResult(check_name, "PASS", 0, Len(Rows(df)))
  ELSE IF failed_rows = {}
  THEN ValidationResult(check_name, "PASS", 0, Cardinality(checked))
  ELSE ValidationResult(check_name, "FAIL", Cardinality(failed_rows),
                        Cardinality(checked) - Cardinality(failed_rows))

\* a uniqueness check that counts a repeated name from its second row on
validate_unique_names_after_first(df) ==
  LET total_rows == Len(Rows(df))
      repeats == {r \in 1..total_rows :
                    \/ strip(Cell(df, r, "Name")) = <<>>
                    \/ \E q \in 1..(r - 1) : Cell(df, q, "Name") = Cell(df, r, "Name")}
  IN IF repeats = {}
     THEN ValidationResult("Unique_Name", "PASS", 0, total_rows)
     ELSE ValidationResult("Unique_Name", "FAIL", Cardinality(repeats),
                           total_rows - Cardinality(repeats))

validate_unique_names(df) ==
  IF ~HasColumn(df, "Name")
  THEN ValidationResult("Unique_Name", "WARNING", 0, 0)
  ELSE LET total_rows == Len(Rows(df))
           empty_mask == {r \in 1..total_rows : strip(Cell(df, r, "Name")) = <<>>}
           non_empty == (1..total_rows) \ empty_mask
           \* name_counts[name] > 1
           duplicated == {r \in non_empty :
                            \E q \in non_empty : q # r /\ Cell(df, q, "Name") = Cell(df, r, "Name")}
           error_count == Cardinality(empty_mask) + Cardinality(duplicated)
       IN IF error_count = 0
          THEN ValidationResult("Unique_Name", "PASS", 0, total_rows)
          ELSE ValidationResult("Unique_Name", "FAIL", error_count, total_rows - error_count)

\* TYPE_DIMENSIONS: the expected Width and Depth of a type having a rule
TYPE_DIMENSIONS ==
  [Shelf |-> [Width |-> <<48, 1>>, Depth |-> <<24, 1>>],
   Rod |-> [Width |-> <<1, 2>>, Depth |-> <<21, 1>>],
   Bar |-> [Width |-> <<48, 1>>, Depth |-> <<1, 2>>],
   Pegboard |-> [Width |-> <<46, 1>>, Depth |-> <<1, 4>>]]

\* the key of TYPE_DIMENSIONS a type text is, "" when it is none
type_key(t) ==
  CASE t = <<"S", "h", "e", "l", "f">> -> "Shelf"
    [] t = <<"R", "o", "d">> -> "Rod"
    [] t = <<"B", "a", "r">> -> "Bar"
    [] t = <<"P", "e", "g", "b", "o", "a", "r", "d">> -> "Pegboard"
    [] OTHER -> ""

validate_type_dimensions(df) ==
  IF \E col \in {"Type", "Width", "Depth"} : ~HasColumn(df, col)
  THEN ValidationResult("Type_Dimensions", "WARNING", 0, 0)
  ELSE LET fixture_type(r) == type_key(strip(Cell(df, r, "Type")))
           is_null(r) == strip(Cell(df, r, "Width")) = <<>> \/ strip(Cell(df, r, "Depth")) = <<>>
           failed_rows ==
             {r \in 1..Len(Rows(df)) :
                \/ is_null(r)
                \/ /\ fixture_type(r) # ""
                   /\ \/ wrong_number(Cell(df, r, "Width"), TYPE_DIMENSIONS[fixture_type(r)].Width)
                      \/ wrong_number(Cell(df, r, "Depth"), TYPE_DIMENSIONS[fixture_type(r)].Depth)}
       IN collected("Type_Dimensions", df, failed_rows)

validate_y_not_equal_notch(df) ==
  IF \E col \in {"Y", "Notch"} : ~HasColumn(df, col)
  THEN ValidationResult("Y_Not_Equal_Notch", "WARNING", 0, 0)
  ELSE LET y_str(r) == strip(Cell(df, r, "Y"))
           notch_str(r) == strip(Cell(df, r, "Notch"))
       IN collected("Y_Not_Equal_Notch", df,
                    {r \in 1..Len(Rows(df)) :
                       /\ y_str(r) = notch_str(r)
                       /\ y_str(r) # <<>>
                       /\ lower(y_str(r)) # <<"n", "a", "n">>})

\* fixture_type == 'Shelf'
is_shelf(df, r) == strip(Cell(df, r, "Type")) = <<"S", "h", "e", "l", "f">>

\* name.upper().startswith('DECK')
is_deck(df, r) == StartsWith(upper(strip(Cell(df, r, "Name"))), <<"D", "E", "C", "K">>)

validate_deck_shelf_y(df) ==
  IF \E col \in {"Type", "Name", "Y"} : ~HasColumn(df, col)
  THEN ValidationResult("Deck_Shelf_Y", "WARNING", 0, 0)
  ELSE LET deck_shelves == {r \in 1..Len(Rows(df)) : is_shelf(df, r) /\ is_deck(df, r)}
       IN keyed("Deck_Shelf_Y", df, deck_shelves,
                {r \in deck_shelves : wrong_number(Cell(df, r, "Y"), <<23, 4>>)})

validate_shelf_z(df) ==
  IF \E col \in {"Type", "Name", "Z"} : ~HasColumn(df, col)
  THEN ValidationResult("Shelf_Z", "WARNING", 0, 0)
  ELSE LET shelves == {r \in 1..Len(Rows(df)) : is_shelf(df, r)}
           expected_z(r) == IF is_deck(df, r) THEN <<1, 4>> ELSE <<5, 4>>
       IN keyed("Shelf_Z", df, shelves,
                {r \in shelves : wrong_number(Cell(df, r, "Z"), expected_z(r))})

validate_shelf_overhangs(df) ==
  IF \E col \in {"Type", "Left_Overhang", "Right_Overhang", "Front_Overhang"} : ~HasColumn(df, col)
  THEN ValidationResult("Shelf_Overhangs", "WARNING", 0, 0)
  ELSE LET shelves == {r \in 1..Len(Rows(df)) : is_shelf(df, r)}
       IN keyed("Shelf_Overhangs", df, shelves,
                {r \in shelves :
                   \E col \in {"Left_Overhang", "Right_Overhang", "Front_Overhang"} :
                      wrong_number(Cell(df, r, col), <<0, 1>>)})

validate_shelf_back_overhang(df) ==
  IF \E col \in {"Type", "Name", "Back_Overhang"} : ~HasColumn(df, col)
  THEN ValidationResult("Shelf_Back_Overhang", "WARNING", 0, 0)
  ELSE LET shelves == {r \in 1..Len(Rows(df)) : is_shelf(df, r)}
           expected_back(r) == IF is_deck(df, r) THEN <<0, 1>> ELSE <<5, 4>>
       IN keyed("Shelf_Back_Overhang", df, shelves,
                {r \in shelves : wrong_number(Cell(df, r, "Back_Overhang"), expected_back(r))})

\* the summary validate_fixture_data computes from its results
fixture_summary(validation_results) ==
  [total_checks |-> Len(validation_results),
   passed |-> Cardinality({i \in 1..Len(validation_results) : passed(validation_results[i])}),
   failed |-> Cardinality({i \in 1..Len(validation_results) :
                             ~passed(validation_results[i]) /\ validation_results[i].status = "FAIL"}),
   warnings |-> CountStatus(validation_results, "WARNING"),
   overall_status |-> IF Cardinality({i \in 1..Len(validation_results) :
                                         ~passed(validation_results[i])
                                         /\ validation_results[i].status = "FAIL"}) = 0
                      THEN "PASS" ELSE "FAIL"]

\* a validation that stops at a failed Unique_Name
fixture_results_until_fail(fixture_rows, df) ==
  <<validate_field_count(fixture_rows)>>
  \o (IF df = NULL THEN <<>>
      ELSE IF ~passed(validate_unique_names(df)) THEN <<validate_unique_names(df)>>
      ELSE << validate_unique_names(df),
              validate_type_dimensions(df),
              validate_y_not_equal_notch(df),
              validate_deck_shelf_y(df),
              validate_shelf_z(df),
              validate_shelf_overhangs(df),
              validate_shelf_back_overhang(df) >>)

\* the results of validate_fixture_data: Field_Count, then the seven checks
\* of the table when one is given; df is NULL on the first call of the mapper
fixture_results(fixture_rows, df) ==
  <<validate_field_count(fixture_rows)>>
  \o (IF df = NULL THEN <<>>
      ELSE << validate_unique_names(df),
              validate_type_dimensions(df),
              validate_y_not_equal_notch(df),
              validate_deck_shelf_y(df),
              validate_shelf_z(df),
              validate_shelf_overhangs(df),
              validate_shelf_back_overhang(df) >>)

validate_fixture_data(fixture_rows, df) ==
  <<fixture_results(fixture_rows, df), fixture_summary(fixture_results(fixture_rows, df))>>

(***************************************************************************)
(* fixture_mapper                                                          *)
(***************************************************************************)
\* FIELDS_TO_KEEP as positions, and FIXTURE_FIELD_MAPPING applied to them
FIELDS_TO_KEEP == <<0, 1, 3, 4, 5, 7, 8, 12, 22, 26, 27, 30, 31, 76, 104>>

FIXTURE_FIELD_MAPPING ==
  [Field_0 |-> "Type", Field_1 |-> "Name", Field_3 |-> "X", Field_4 |-> "Width",
   Field_5 |-> "Y", Field_7 |-> "Z", Field_8 |-> "Depth", Field_12 |-> "Color",
   Field_22 |-> "Merch", Field_26 |-> "Left_Overhang", Field_27 |-> "Right_Overhang",
   Field_30 |-> "Back_Overhang", Field_31 |-> "Front_Overhang", Field_76 |-> "Notch",
   Field_104 |-> "Proof_Notes"]

\* TYPE_CODE_MAPPING.get(x.strip(), x)
map_type_code(x) ==
  LET code == strip(x) IN
  CASE code = <<"0">> -> <<"S", "h", "e", "l", "f">>
    [] code = <<"4">> -> <<"R", "o", "d">>
    [] code = <<"6">> -> <<"B", "a", "r">>
    [] code = <<"7">> -> <<"P", "e", "g", "b", "o", "a", "r", "d">>
    [] code = <<"1", "0">> -> <<"O", "b", "s", "t", "r", "u", "c", "t", "i", "o", "n">>
    [] OTHER -> x

\* steps 3 to 7 of extract_and_map_fixture: the table of rows that have
\* every column of FIELDS_TO_KEEP
fixture_df_renamed(rows) ==
  LET max_cols == MaxLen(rows)
      all_field_names == [k \in 1..max_cols |-> RawName(k - 1)] \o <<>>
      padded == padded_rows(rows, max_cols)
      trimmed_names == [k \in 1..Len(FIELDS_TO_KEEP) |->
                          all_field_names[FIELDS_TO_KEEP[k] + 1]] \o <<>>
      renamed == rename_columns(trimmed_names, FIXTURE_FIELD_MAPPING)
      cells(r) == [k \in 1..Len(FIELDS_TO_KEEP) |->
                     LET v == padded[r][FIELDS_TO_KEEP[k] + 1] IN
                     IF renamed[k] = "Type" THEN map_type_code(v) ELSE v] \o <<>>
  IN DataFrame(<<"Table_Name">> \o renamed,
               [r \in 1..Len(padded) |->
                  <<<<"F", "i", "x", "t", "u", "r", "e">>>> \o cells(r)] \o <<>>)

\* step 8 of extract_and_map_fixture: the table with its full validation
fixture_validated(rows, df_renamed) ==
  <<df_renamed>> \o validate_fixture_data(rows, df_renamed)

\* extract_and_map_fixture without step 2: the table is built whatever
\* Field_Count says
fixture_from_rows_unchecked(rows) ==
  IF rows = <<>> THEN Raised
  ELSE IF \E k \in 1..Len(FIELDS_TO_KEEP) : FIELDS_TO_KEEP[k] + 1 > MaxLen(rows) THEN Raised
  ELSE fixture_validated(rows, fixture_df_renamed(rows))

\* extract_and_map_fixture from the rows read
fixture_from_rows(rows) ==
  IF rows = <<>> THEN Raised
  ELSE IF ~passed(validate_fixture_data(rows, NULL)[1][1]) THEN Raised
  \* df_all[FIELDS_TO_KEEP] raises KeyError for a missing column
  ELSE IF \E k \in 1..Len(FIELDS_TO_KEEP) : FIELDS_TO_KEEP[k] + 1 > MaxLen(rows) THEN Raised
  ELSE fixture_validated(rows, fixture_df_renamed(rows))

extract_and_map_fixture(lines) == fixture_from_rows(read_fixture_rows_from_bytes(lines))

\* fixture_extractor.extract_fixture_data
extract_fixture_data(lines) == extract_and_map_fixture(lines)

(***************************************************************************)
(* psa_processor.process_psa_file                                          *)
(***************************************************************************)
ZeroSummary == [total_checks |-> 0, passed |-> 0, failed |-> 0, warnings |-> 0]

\* Entries without the except branch: nothing is stored for a table whose
\* extraction raised
Entries_no_handler(df_key, validation_key, summary_key, extraction) ==
  IF extraction = Raised
  THEN <<>>
  ELSE (df_key :> extraction[1]) @@ (validation_key :> extraction[2])
         @@ (summary_key :> extraction[3])

\* the three entries one try/except block stores for a table
Entries(df_key, validation_key, summary_key, extraction) ==
  IF extraction = Raised
  THEN (df_key :> NULL) @@ (validation_key :> <<>>) @@ (summary_key :> ZeroSummary)
  ELSE (df_key :> extraction[1]) @@ (validation_key :> extraction[2])
         @@ (summary_key :> extraction[3])

(***************************************************************************)
(* The uploaded files: every sequence of at most MaxLines lines drawn from *)
(* a catalogue holding a header line, Product rows of 3 and 238 fields,     *)
(* a Planogram row, and Fixture rows of 166 and of 150 fields.             *)
(***************************************************************************)
\* `token` followed by n comma-separated cells, cell k being cell(k)
RowLine(token, n, cell(_)) ==
  token \o [i \in 1..(2 * n) |-> IF i % 2 = 1 THEN "," ELSE cell(i \div 2)]

HeaderLine == <<"P", "r", "o", "S", "p", "a", "c", "e">>

\* 3 fields, the last one holding an escaped comma
ProductShort == <<"P", "r", "o", "d", "u", "c", "t", ",", "1", "2", ",", "a", "\\", ",", "b">>

\* 238 fields: UPC, then '1' everywhere but a 0 at position 225
ProductLong ==
  RowLine(<<"P", "r", "o", "d", "u", "c", "t">>, 237, LAMBDA k : IF k = 225 THEN "0" ELSE "1")

PlanogramFull == <<"P", "l", "a", "n", "o", "g", "r", "a", "m", ",", "P", "O", "G", ",", "x", ",", "4", "8", ",", "7", "2", ",", "2", "4", ",", "y", ",", " ", "1", "4", ",", "1", "2", "3", "4", ",", "S", "h", "e", "l", "f", "_", "1", "2", "x", ".", "p", "s", "a", ",", "1", "/", "1", "2", "/", "2", "0", "9", "9">>

\* 166 fields after the token: type code 0, name N, then '1'
FixtureExact ==
  RowLine(<<"F", "i", "x", "t", "u", "r", "e">>, EXPECTED_FIELD_COUNT,
          LAMBDA k : IF k = 1 THEN "0" ELSE IF k = 2 THEN "N" ELSE "1")

\* 150 fields after the token
FixtureFew ==
  RowLine(<<"F", "i", "x", "t", "u", "r", "e">>, 150, LAMBDA k : IF k = 1 THEN "7" ELSE IF k = 2 THEN "M" ELSE "2")

LineCatalog ==
  {HeaderLine, ProductShort, ProductLong, PlanogramFull, FixtureExact, FixtureFew}

Files == UNION {[1..k -> LineCatalog] : k \in 0..MaxLines}

(***************************************************************************)
(* The tokenizer on its own: parse_psa_line applied to every short line    *)
(* over an alphabet of a letter, the comma and the backslash.              *)
(***************************************************************************)
LineAlphabet == {"a", ",", backslash}

LinesUpTo(n) == UNION {[1..k -> LineAlphabet] : k \in 0..n}

\* no validator is under run
NoValidator ==
  /\ validator = "" /\ self_df = NULL /\ raw_rows = <<>>
  /\ self_excel_reference_bytes = NoReference /\ self_results = NULL

\* no upload has been served
NoSession == hash_seed = 0 /\ previous = NULL /\ runs = 0 /\ exported = <<>>

InitTok ==
  /\ line \in LinesUpTo(MaxLineLen)
  /\ parsed = NULL
  /\ psa_bytes = <<>> /\ today = 0 /\ pc = "idle" /\ result = <<>>
  /\ fields = <<>> /\ mapped = <<>>
  /\ NoValidator
  /\ NoSession

CallParsePsaLine ==
  /\ parsed = NULL
  /\ parsed' = parse_psa_line(line)
  /\ UNCHANGED <<psa_bytes, today, pc, result, line, fields, mapped>>
  /\ UNCHANGED validator_vars
  /\ UNCHANGED session_vars

NextTok == CallParsePsaLine

SpecTok == InitTok /\ [][NextTok]_vars

(***************************************************************************)
(* The mapper on its own: smart_map_planogram_fields applied to raw rows   *)
(* of every length up to 7 + MaxRemainder.                                 *)
(***************************************************************************)
\* 2026-11-01 and 2099-01-12 as ordinals
Todays == {739921, 766291}

Heads7 ==
  {<<<<"P", "l", "a", "n", "o", "g", "r", "a", "m">>, <<"P", "O", "G">>, <<"x">>, w, <<"7", "2">>, <<"2", "4">>, <<"y">>>> : w \in {<<"4", "8">>, <<"0">>, <<"a", "b", "c">>}}

\* rows of seven fields whose Field_3 is a numeral of another form
WidthRows ==
  {<<<<"P", "l", "a", "n", "o", "g", "r", "a", "m">>, <<"P", "O", "G">>, <<"x">>, w, <<"7", "2">>, <<"2", "4">>, <<"y">>>> :
     w \in {<<>>, <<" ", "4", ".", "5", " ">>, <<"-", "1", "2">>, <<"0", ".", "0">>, <<"1", "e", "2">>, <<"4", "e">>,
            <<"1", "e", "-", "3", "2", "3">>, <<"5", "e", "-", "3", "2", "3">>, <<"3", "e", "-", "3", "2", "4">>}}

ShortRows ==
  {<<>>, <<<<"P", "l", "a", "n", "o", "g", "r", "a", "m">>>>, <<<<"P", "l", "a", "n", "o", "g", "r", "a", "m">>, <<"P", "O", "G">>, <<"x">>, <<"4", "8">>>>}

RemCatalog ==
  { <<"7", ".", "8", "1", " ", "1", ".", "2", "5">>,
    <<" ", "1", "4">>,
    <<"1", "7">>,
    <<"1", "2", "3", "4">>,
    <<"1", "2", "3", "4", "5">>,
    <<"1", "/", "1", "/", "2", "0", "0", "0", " ", "1", "/", "1", "2", "/", "2", "0", "9", "9">>,
    <<"E", "f", "f", " ", "1", "/", "1", "2", "/", "2", "0", "9", "9">>,
    <<"1", "/", "1", "4", "/", "3", "0">>,
    <<"S", "h", "e", "l", "f", "_", "1", "2", "x", ".", "P", "S", "A">>,
    <<"G", "E", "N", "E", "R", "A", "L", "_", "T", "C">> }

Remainders == UNION {[1..k -> RemCatalog] : k \in 0..MaxRemainder}

\* file names: without underscore, with digits, a letter, a full stop, a
\* hyphen or another underscore after the first one
FileNames ==
  { <<"a", "b", ".", "p", "s", "a">>,
    <<"a", "_", "1", "2", "x", ".", "p", "s", "a">>,
    <<"a", "_", "1", "2", ".", "p", "s", "a">>,
    <<"a", "_", "x", "1", ".", "p", "s", "a">>,
    <<"a", "_", ".", "p", "s", "a">>,
    <<"a", "_", "1", "_", "2", "b", ".", "p", "s", "a">>,
    <<"a", "_", "7", "-", "8", "b", ".", "p", "s", "a">>,
    <<" ", "1", "2", "3", "4", "5", "0", "0", "4", "_", "3", "x", ".", "p", "s", "a", " ">>,
    <<".", "p", "s", "a", "_", "9">>,
    <<".", "P", "S", "A", "_">> }

\* rows whose remainder is one file name
FileNameRows ==
  {<<<<"P", "l", "a", "n", "o", "g", "r", "a", "m">>, <<"P", "O", "G">>, <<"x">>, <<"4", "8">>, <<"7", "2">>, <<"2", "4">>, <<"y">>, f>> :
     f \in FileNames}

RawRows ==
  ShortRows \cup WidthRows \cup FileNameRows \cup {h \o r : h \in Heads7, r \in Remainders}

InitMap ==
  /\ fields \in RawRows
  /\ today \in Todays
  /\ mapped = <<>>
  /\ psa_bytes = <<>> /\ pc = "idle" /\ result = <<>>
  /\ line = <<>> /\ parsed = NULL
  /\ NoValidator
  /\ NoSession

CallSmartMap ==
  /\ mapped = <<>>
  /\ mapped' = smart_map_planogram_fields(fields, today)
  /\ UNCHANGED <<psa_bytes, today, pc, result, line, parsed, fields>>
  /\ UNCHANGED validator_vars
  /\ UNCHANGED session_vars

NextMap == CallSmartMap

SpecMap == InitMap /\ [][NextMap]_vars

\* the remainder of the row in `fields`
Pool == IF Len(fields) > 7 THEN SubSeq(fields, 8, Len(fields)) ELSE <<>>

(***************************************************************************)
(* What the escaping dialect prescribes for a line, stated on positions.   *)
(***************************************************************************)
\* number of consecutive backslashes that end right before position i
BackslashRun(ln, i) ==
  LET others == {j \in 1..(i - 1) : ln[j] # backslash} IN
  i - 1 - (IF others = {} THEN 0 ELSE Max(others))

\* position i is the character an escaping backslash escapes
IsEscaped(ln, i) == BackslashRun(ln, i) % 2 = 1

IsEscapingBackslash(ln, i) == ln[i] = backslash /\ ~IsEscaped(ln, i)

IsSeparator(ln, i) == ln[i] = "," /\ ~IsEscaped(ln, i)

Separators(ln) == {i \in 1..Len(ln) : IsSeparator(ln, i)}

\* positions whose character reaches the output when every escaping
\* backslash is consumed
KeptAllConsumed(ln) ==
  {i \in 1..Len(ln) : ~IsSeparator(ln, i) /\ ~IsEscapingBackslash(ln, i)}

\* the same, except that a backslash with no character after it stays
KeptTrailing(ln) ==
  {i \in 1..Len(ln) :
     ~IsSeparator(ln, i) /\ ~(IsEscapingBackslash(ln, i) /\ i < Len(ln))}

\* the fields cut at the separators, made of the kept positions
FieldsCutAt(ln, kept) ==
  LET seps == Ascending(Separators(ln))
      lo(k) == IF k = 1 THEN 0 ELSE seps[k - 1]
      hi(k) == IF k = Len(seps) + 1 THEN Len(ln) + 1 ELSE seps[k]
  IN [k \in 1..(Len(seps) + 1) |-> Pick(ln, {i \in kept : lo(k) < i /\ i < hi(k)})]

\* C6 (as stated): parse_psa_line splits exactly at the unescaped commas and
\* consumes every escaping backslash, wherever it stands in the line, so no
\* escaping backslash reaches the output, the last character included.
C6_EveryBackslashConsumed ==
  (parsed # NULL /\ line # <<>>) => parsed = FieldsCutAt(line, KeptAllConsumed(line))

\* C6 (amended): parse_psa_line splits exactly at the unescaped commas and
\* consumes every escaping backslash that has a character after it; an
\* unescaped backslash that is the last character of the line is kept as a
\* literal backslash, and the empty line has no fields.
C6_BackslashConsumedUnlessLast ==
  parsed # NULL =>
    parsed = (IF line = <<>> THEN <<>> ELSE FieldsCutAt(line, KeptTrailing(line)))

\* a line with an escaped comma, an unescaped comma and a trailing backslash
C6_Witness ==
  /\ parsed # NULL
  /\ line = <<"a", backslash, ",", ",", backslash>>
  /\ parsed = <<<<"a", ",">>, <<backslash>>>>

(***************************************************************************)
(* Claims about smart_map_planogram_fields.                                *)
(***************************************************************************)
Called == mapped # <<>>

FieldNameSet == {FIELD_NAMES[i] : i \in 1..Len(FIELD_NAMES)}

NoPoolField(P(_)) == \A i \in 1..Len(Pool) : ~P(Pool[i])

\* C8: smart_map_planogram_fields returns exactly the 22 named fields of
\* FIELD_NAMES for every raw row, whatever its length, and every searched
\* field whose search finds no matching remainder field is the empty string.
C8_Always22NamedFields ==
  Called =>
    /\ Len(FIELD_NAMES) = 22
    /\ DOMAIN mapped = FieldNameSet
    /\ Cardinality(DOMAIN mapped) = 22
    /\ \A k \in 1..7 : mapped[FIELD_NAMES[k]] = (IF k <= Len(fields) THEN fields[k] ELSE <<>>)
    /\ (NoPoolField(LAMBDA f : Contains(f, <<"7", ".", "8", "1">>)) => mapped["Offset"] = <<>>)
    /\ (NoPoolField(LAMBDA f : Contains(f, <<"1", ".", "2", "5">>)) => mapped["Notch_Bar_Width"] = <<>>)
    /\ (NoPoolField(LAMBDA f : strip(f) \in target_values) =>
          mapped["Department"] = <<>> /\ mapped["Category"] = <<>>)
    /\ (NoPoolField(LAMBDA f : Contains(f, <<"/">>)) => mapped["Effective_Date"] = <<>>)
    /\ (NoPoolField(LAMBDA f : Contains(lower(f), <<"g", "e", "n", "e", "r", "a", "l", "_", "t", "c">>)) => mapped["Print_1"] = <<>>)
    /\ (NoPoolField(LAMBDA f : Contains(lower(f), <<"p", "r", "o", "d", "u", "c", "t", " ", "l", "i", "s", "t", "i", "n", "g", ".", "p", "s", "t">>)) => mapped["Print_2"] = <<>>)
    /\ (NoPoolField(LAMBDA f : Contains(lower(f), <<"s", "h", "e", "l", "f">>)) => mapped["Print_3"] = <<>>)
    /\ (NoPoolField(LAMBDA f : Contains(lower(f), <<"n", "r", "_", "p", "_", "c", "_", "s", "e", "g", ".", "p", "s", "y">>)) => mapped["Print_4"] = <<>>)
    /\ (NoPoolField(LAMBDA f : Contains(lower(f), <<".", "p", "s", "a">>)) =>
          /\ mapped["File_Name"] = <<>>
          /\ mapped["Drawing_ID"] = <<>>
          /\ mapped["Footage"] = <<>>
          /\ mapped["Trait_Number"] = <<>>)

\* a row shorter than 7 fields, mapped to the 22 names with every derived
\* field empty
C8_Witness ==
  /\ Called
  /\ fields = <<<<"P", "l", "a", "n", "o", "g", "r", "a", "m">>>>
  /\ DOMAIN mapped = FieldNameSet
  /\ mapped["Table_Name"] = <<"P", "l", "a", "n", "o", "g", "r", "a", "m">>
  /\ \A k \in 2..22 : mapped[FIELD_NAMES[k]] = <<>>

\* a substring of f that matches M/D/Y, parses, and is a Monday after now
QualifyingDates(f, now) ==
  {DateMatch(f, p, DateLengths[k]).text :
     <<p, k>> \in {pk \in (1..Len(f)) \X (1..12) :
        /\ DateMatchesAt(f, pk[1], DateLengths[pk[2]])
        /\ LET o == strptime_formats(DateMatch(f, pk[1], DateLengths[pk[2]]))
           IN o # ValueError /\ o > now /\ weekday(o) = 0}}

\* C9: with the current time fixed, Effective_Date is non-empty if and only
\* if some remainder field contains, at any position, a substring matching
\* M/D/Y that parses to a Monday strictly after the current time; when
\* non-empty it is such a substring of the first field that has one.
C9_DateIffQualifyingSubstring ==
  Called =>
    LET has(f) == QualifyingDates(f, today) # {}
        i == FirstIndex(Pool, has)
    IN /\ (mapped["Effective_Date"] # <<>>) <=> (i # 0)
       /\ i # 0 => mapped["Effective_Date"] \in QualifyingDates(Pool[i], today)

IsCodeTrimmed(f) == strip(f) \in target_values

IsFourDigitsTrimmed(f) == Len(strip(f)) = 4 /\ IsDigits(strip(f))

\* C10 (as stated): Department is the first remainder field equal to one of
\* the codes and Category the first field after it that consists of exactly
\* 4 digits; both are empty when no field equals a code.
C10_DepartmentEqualsCode ==
  Called =>
    LET isCode(f) == f \in target_values
        is4(f) == Len(f) = 4 /\ IsDigits(f)
        i == FirstIndex(Pool, isCode)
        j == IF i = 0 THEN 0 ELSE FirstIndex(SubSeq(Pool, i + 1, Len(Pool)), is4)
    IN /\ mapped["Department"] = (IF i = 0 THEN <<>> ELSE Pool[i])
       /\ mapped["Category"] = (IF j = 0 THEN <<>> ELSE Pool[i + j])

\* C10 (amended): Department is the first remainder field that, once
\* surrounding whitespace is trimmed, equals one of the codes 14, 17, 20, 22,
\* 71, 74 (the field is returned untrimmed); Category is the trimmed value of
\* the first field after that position that trims to exactly 4 digits.  With
\* no code field both are empty even if a 4-digit field exists; with a code
\* field and no 4-digit field after it Category is empty and Department is
\* not; a 4-digit field before the code is never used.
C10_DepartmentThenCategory ==
  Called =>
    LET codes == {i \in 1..Len(Pool) : IsCodeTrimmed(Pool[i])} IN
    IF codes = {}
    THEN mapped["Department"] = <<>> /\ mapped["Category"] = <<>>
    ELSE \E i \in codes :
           /\ \A h \in codes : i <= h
           /\ mapped["Department"] = Pool[i]
           /\ mapped["Department"] # <<>>
           /\ LET after == {j \in (i + 1)..Len(Pool) : IsFourDigitsTrimmed(Pool[j])} IN
              IF after = {} THEN mapped["Category"] = <<>>
              ELSE \E j \in after :
                     /\ \A h \in after : j <= h
                     /\ mapped["Category"] = strip(Pool[j])

\* a 4-digit field stands before the code and none after it: Department is
\* populated and Category is empty
C10_Witness ==
  /\ Called
  /\ Pool = <<<<"1", "2", "3", "4">>, <<" ", "1", "4">>, <<"1", "2", "3", "4", "5">>>>
  /\ mapped["Department"] = <<" ", "1", "4">>
  /\ mapped["Category"] = <<>>

Field_3 == IF Len(fields) > 3 THEN fields[4] ELSE <<>>

\* Field_3 parses as a number other than zero
Field_3_NonZero ==
  /\ Field_3 # <<>>
  /\ float_of(Field_3) # <<>>
  /\ float_of(Field_3)[1] # 0

\* C11: Width_Feet is Field_3 / 12 whenever Field_3 parses as a non-zero
\* number and is empty otherwise (absent, empty, zero or no number);
\* Segments is Width_Feet / 4 under the same rule, so that Segments is
\* non-empty exactly when Width_Feet is non-empty.
C11_SegmentsIffWidthFeet ==
  Called =>
    /\ mapped["Width_Feet"] =
         (IF Field_3_NonZero THEN float_str(truediv(float_of(Field_3), 12)) ELSE <<>>)
    /\ (mapped["Segments"] # <<>>) <=> (mapped["Width_Feet"] # <<>>)
    /\ (mapped["Segments"] # <<>> =>
          mapped["Segments"] = float_str(truediv(float_of_str(mapped["Width_Feet"]), 4)))

\* Field_3 is "1e-323": not zero, but zero once divided by 12, so Width_Feet
\* is "0.0" and Segments is empty
C11_Witness ==
  /\ Called
  /\ Field_3 = <<"1", "e", "-", "3", "2", "3">>
  /\ Field_3_NonZero
  /\ mapped["Width_Feet"] = float_str(<<0, 0>>)
  /\ mapped["Segments"] = <<>>

(***************************************************************************)
(* SpecMerge: merge_long_text_fields applied to one parsed line.           *)
(***************************************************************************)
Repeat(c, n) == [k \in 1..n |-> c] \o <<>>

\* the fields considered: empty, short, marked, marked behind blanks, and
\* unmarked ones of the lengths around the two thresholds 50 and 100
FieldCatalog ==
  { <<>>, <<"a", "b">>, <<"{", "a">>, <<" ", "<", "x">>,
    Repeat("m", 49), Repeat("m", 50), Repeat("m", 100), Repeat("m", 101) }

ParsedLines == UNION {[1..k -> FieldCatalog] : k \in 0..MaxFields}

InitMerge ==
  /\ fields \in ParsedLines
  /\ parsed = NULL
  /\ psa_bytes = <<>> /\ today = 0 /\ pc = "idle" /\ result = <<>>
  /\ line = <<>> /\ mapped = <<>>
  /\ NoValidator
  /\ NoSession

CallMergeLongTextFields ==
  /\ parsed = NULL
  /\ parsed' = merge_long_text_fields(fields)
  /\ UNCHANGED <<psa_bytes, today, pc, result, line, fields, mapped>>
  /\ UNCHANGED validator_vars
  /\ UNCHANGED session_vars

NextMerge == CallMergeLongTextFields

SpecMerge == InitMerge /\ [][NextMerge]_vars

Merged == parsed # NULL

Marked(f) == strip(f) # <<>> /\ strip(f)[1] \in {"{", "<"}

LongText(f) == Len(f) > 100 \/ Marked(f)

\* the fields of s joined with single spaces
RECURSIVE JoinSpace(_)
JoinSpace(s) ==
  IF Len(s) = 1 THEN s[1] ELSE s[1] \o <<" ">> \o JoinSpace(Tail(s))

\* the positions that open a field of the output, given the positions the
\* merges absorb: every other position
HeadsOf(absorbed) == {k \in 1..Len(fields) : k \notin absorbed}

\* the output that absorbing the positions of absorbed gives: each head
\* joined with the absorbed positions that follow it, in order
OutputOf(absorbed) ==
  LET heads == HeadsOf(absorbed)
      last(h) == IF \E g \in heads : g > h
                 THEN (CHOOSE g \in heads : g > h /\ \A x \in heads : x > h => g <= x) - 1
                 ELSE Len(fields)
  IN [m \in 1..Cardinality(heads) |->
        LET h == CHOOSE g \in heads : Cardinality({x \in heads : x <= g}) = m
        IN JoinSpace(SubSeq(fields, h, last(h)))] \o <<>>

\* position k follows a long-text field with no field that is not long-text
\* from that field up to k
AbsorbedUntilNotLongText ==
  {k \in 1..Len(fields) :
     \E i \in 1..(k - 1) : LongText(fields[i]) /\ \A j \in (i + 1)..k : LongText(fields[j])}

\* position k follows a long-text field with no unmarked field shorter than
\* 50 characters from that field up to k
AbsorbedUntilShort ==
  {k \in 1..Len(fields) :
     \E i \in 1..(k - 1) :
        LongText(fields[i]) /\ \A j \in (i + 1)..k : ~(Len(fields[j]) < 50 /\ ~Marked(fields[j]))}

InitFile ==
  /\ psa_bytes \in Files
  /\ today = 739921
  /\ pc = "product"
  /\ result = <<>>
  /\ line = <<>> /\ parsed = NULL /\ fields = <<>> /\ mapped = <<>>
  /\ NoValidator
  /\ NoSession

ExtractProduct ==
  /\ pc = "product"
  /\ result' = result @@ Entries("product_df", "product_validation", "product_summary",
                                 extract_product_data(psa_bytes))
  /\ pc' = "planogram"
  /\ UNCHANGED <<psa_bytes, today, line, parsed, fields, mapped>>
  /\ UNCHANGED validator_vars
  /\ UNCHANGED session_vars

ExtractPlanogram ==
  /\ pc = "planogram"
  /\ result' = result @@ Entries("planogram_df", "planogram_validation", "planogram_summary",
                                 extract_planogram_data(psa_bytes, today))
  /\ pc' = "fixture"
  /\ UNCHANGED <<psa_bytes, today, line, parsed, fields, mapped>>
  /\ UNCHANGED validator_vars
  /\ UNCHANGED session_vars

ExtractFixture ==
  /\ pc = "fixture"
  /\ result' = result @@ Entries("fixture_df", "fixture_validation", "fixture_summary",
                                 extract_fixture_data(psa_bytes))
  /\ pc' = "done"
  /\ UNCHANGED <<psa_bytes, today, line, parsed, fields, mapped>>
  /\ UNCHANGED validator_vars
  /\ UNCHANGED session_vars

NextFile == ExtractProduct \/ ExtractPlanogram \/ ExtractFixture

SpecFile == InitFile /\ [][NextFile]_vars

(***************************************************************************)
(* Claims about the pipelines.                                             *)
(***************************************************************************)
ProductDone == pc \in {"planogram", "fixture", "done"}
PlanogramDone == pc \in {"fixture", "done"}
FixtureDone == pc = "done"

\* what a pipeline contributes, from its extraction alone
Outcome(extraction) ==
  LET e == extraction
  IN  IF e = Raised THEN <<NULL, <<>>, ZeroSummary>> ELSE e

Stored(df_key, validation_key, summary_key, extraction) ==
  LET outcome == Outcome(extraction)
  IN  /\ {df_key, validation_key, summary_key} \subseteq DOMAIN result
      /\ result[df_key] = outcome[1]
      /\ result[validation_key] = outcome[2]
      /\ result[summary_key] = outcome[3]

\* C1: whichever of the three pipelines raise, process_psa_file goes through
\* all three blocks and returns; every pipeline that raised contributes a
\* null table, an empty result list and an all-zero summary, and every other
\* pipeline contributes exactly what its own extraction yields on the file.
C1_FailuresIsolated ==
  /\ pc \in {"product", "planogram", "fixture", "done"}
  /\ ProductDone =>
       Stored("product_df", "product_validation", "product_summary",
              extract_product_data(psa_bytes))
  /\ PlanogramDone =>
       Stored("planogram_df", "planogram_validation", "planogram_summary",
              extract_planogram_data(psa_bytes, today))
  /\ FixtureDone =>
       /\ Stored("fixture_df", "fixture_validation", "fixture_summary",
                 extract_fixture_data(psa_bytes))
       /\ Cardinality(DOMAIN result) = 9

\* the file has no Product row and a Fixture row of 150 fields: both
\* pipelines raised, and the Planogram table was still delivered
C1_Witness ==
  /\ pc = "done"
  /\ psa_bytes = <<PlanogramFull, FixtureFew>>
  /\ result["product_df"] = NULL /\ result["product_validation"] = <<>>
  /\ result["fixture_df"] = NULL /\ result["fixture_summary"] = ZeroSummary
  /\ result["planogram_df"] # NULL
  /\ Len(Rows(result["planogram_df"])) = 1
  /\ result["planogram_summary"].total_checks > 0

\* the Fixture rows of the file, as extract_and_map_fixture reads them
FixtureRowLengths ==
  LET rows == read_fixture_rows_from_bytes(psa_bytes)
  IN {Len(rows[r]) : r \in 1..Len(rows)}

\* C2: if any Fixture row of the file has a field count other than 166 the
\* Fixture extraction raises and no table is built, even when another row has
\* exactly 166 fields; if every Fixture row has exactly 166 fields the
\* extraction succeeds and its table has exactly 16 columns.
C2_EveryRowCountedAgainst166 ==
  FixtureDone =>
    /\ (\E n \in FixtureRowLengths : n # 166) => result["fixture_df"] = NULL
    /\ FixtureRowLengths = {166} =>
         /\ result["fixture_df"] # NULL
         /\ Len(Columns(result["fixture_df"])) = 16

\* a row of 150 fields next to a row of 166 fields went through: the table
\* has both rows
C2_Witness ==
  /\ FixtureDone
  /\ FixtureRowLengths = {150, 166}
  /\ result["fixture_df"] # NULL
  /\ Len(Rows(result["fixture_df"])) = 2

\* the output names of the rename map
RenameOutputs == {get_column_mapping[k] : k \in DOMAIN get_column_mapping}

\* the names of the raw positional form Field_N a file of the catalogue can give
RawNames == {RawName(i) : i \in 0..Len(ProductLong)}

ProductColumns ==
  {Columns(result["product_df"])[k] : k \in 1..Len(Columns(result["product_df"]))}

ProductExtracted == ProductDone /\ result["product_df"] # NULL

\* C3 as stated: every column name of an extracted Product table is an output
\* name of get_column_mapping, and none has the form Field_N.
C3_ColumnsFromRenameMap ==
  ProductExtracted =>
    /\ ProductColumns \subseteq RenameOutputs
    /\ ProductColumns \cap RawNames = {}

\* C3: every column name of an extracted Product table is an output name of
\* get_column_mapping or one of the names create_standard_headers gives to
\* positions 1, 5, 6, 7, 8 and 237, and none has the form Field_N.
C3_ColumnsFromRenameMapOrHeaders ==
  ProductExtracted =>
    /\ ProductColumns \subseteq
         RenameOutputs \cup {"UPC", "Width_Inches", "Height_Inches", "Depth_Inches",
                             "Color", "Front_Overhang_Inches"}
    /\ ProductColumns \cap RawNames = {}

\* a Product row of 238 fields was extracted: 46 columns, some named by the
\* headers and some by the rename map
C3_Witness ==
  /\ ProductExtracted
  /\ psa_bytes[4] = ProductLong
  /\ Len(Columns(result["product_df"])) = 46
  /\ {"UPC", "Color", "Table_Name", "Relay_ID"} \subseteq ProductColumns

\* C4: for each table kind the columns of an extracted table, in their order,
\* are those of every other extracted table of the kind (here: those of the
\* table of a file whose row of the kind is the longest of the catalogue),
\* whatever rows the file has and however many fields they have.
C4_ColumnsFixedPerKind ==
  /\ ProductExtracted =>
       Columns(result["product_df"]) =
         Columns(extract_product_data(<<HeaderLine, HeaderLine, HeaderLine, ProductLong>>)[1])
  /\ (PlanogramDone /\ result["planogram_df"] # NULL) =>
       Columns(result["planogram_df"]) =
         Columns(extract_planogram_data(<<PlanogramFull>>, today)[1])
  /\ (FixtureDone /\ result["fixture_df"] # NULL) =>
       Columns(result["fixture_df"]) = Columns(extract_fixture_data(<<FixtureExact>>)[1])

\* a Product row of 3 fields was extracted: the table has 3 columns
C4_Witness ==
  /\ ProductExtracted
  /\ psa_bytes[4] = ProductShort
  /\ Columns(result["product_df"]) = <<"Table_Name", "UPC", "Item_Number">>

Product == <<"P", "r", "o", "d", "u", "c", "t">>
Planogram == <<"P", "l", "a", "n", "o", "g", "r", "a", "m">>
Fixture == <<"F", "i", "x", "t", "u", "r", "e">>

\* the lines of the file whose first comma-delimited token is `kind`
LinesOfKind(kind) == {i \in 1..Len(psa_bytes) : split_comma(psa_bytes[i])[1] = kind}

RowCount(df_key) == Len(Rows(result[df_key]))

\* C5 as stated: the number of rows of each extracted table is the number of
\* lines of the file whose first comma-delimited token is the kind's name,
\* the first three lines included.
C5_RowPerLineOfKind ==
  /\ ProductExtracted => RowCount("product_df") = Cardinality(LinesOfKind(Product))
  /\ (PlanogramDone /\ result["planogram_df"] # NULL) =>
       RowCount("planogram_df") = Cardinality(LinesOfKind(Planogram))
  /\ (FixtureDone /\ result["fixture_df"] # NULL) =>
       RowCount("fixture_df") = Cardinality(LinesOfKind(Fixture))

\* the lines each reader selects
ProductLines ==
  {i \in 4..Len(psa_bytes) :
     LET f == parse_psa_line(psa_bytes[i]) IN f # <<>> /\ f[1] = Product}
PlanogramLines ==
  {i \in 1..Len(psa_bytes) : StartsWith(psa_bytes[i], Planogram \o <<",">>)}
FixtureLines ==
  {i \in 1..Len(psa_bytes) : StartsWith(strip(psa_bytes[i]), Fixture \o <<",">>)}

\* C5: the Product table has one row for each line after the first three
\* whose first parsed field is 'Product', the Planogram table one row for
\* each line that starts with 'Planogram,', the Fixture table one row for each
\* line that, trimmed, starts with 'Fixture,'; a table with no such line is
\* not built.
C5_RowPerSelectedLine ==
  /\ ProductDone =>
       IF ProductLines = {} THEN result["product_df"] = NULL
       ELSE /\ result["product_df"] # NULL
            /\ RowCount("product_df") = Cardinality(ProductLines)
  /\ PlanogramDone =>
       IF PlanogramLines = {} THEN result["planogram_df"] = NULL
       ELSE /\ result["planogram_df"] # NULL
            /\ RowCount("planogram_df") = Cardinality(PlanogramLines)
  /\ FixtureDone =>
       /\ FixtureLines = {} => result["fixture_df"] = NULL
       /\ result["fixture_df"] # NULL => RowCount("fixture_df") = Cardinality(FixtureLines)

\* four Product lines, three of them among the first three lines of the
\* file: the table has the one row of the fourth line
C5_Witness ==
  /\ ProductExtracted
  /\ psa_bytes = <<ProductShort, ProductLong, ProductShort, ProductShort>>
  /\ RowCount("product_df") = 1

\* the k-th of the lines in S, in file order
NthLine(S, k) == psa_bytes[Ascending(S)[k]]

ProductRowsKeepToken ==
  LET rows == read_product_rows_from_bytes(psa_bytes) IN
  /\ Len(rows) = Cardinality(ProductLines)
  /\ \A k \in 1..Len(rows) : rows[k] = parse_psa_line(NthLine(ProductLines, k))
                             /\ rows[k][1] = Product

FixtureRowsDropToken ==
  LET rows == read_fixture_rows_from_bytes(psa_bytes) IN
  /\ Len(rows) = Cardinality(FixtureLines)
  /\ \A k \in 1..Len(rows) :
       <<Fixture>> \o rows[k] = split_comma(strip(NthLine(FixtureLines, k)))

\* C7 as stated: the Product rows keep the token 'Product' as first field,
\* the Fixture rows and the Planogram rows have their token removed.
C7_PlanogramAndFixtureDropToken ==
  FixtureDone =>
    /\ ProductRowsKeepToken
    /\ FixtureRowsDropToken
    /\ LET rows == read_planogram_rows_from_bytes(psa_bytes) IN
       /\ Len(rows) = Cardinality(PlanogramLines)
       /\ \A k \in 1..Len(rows) :
            <<Planogram>> \o rows[k] =
              merge_long_text_fields(parse_csv_line(NthLine(PlanogramLines, k)))

\* C7: the Product rows and the Planogram rows keep their token ('Product',
\* 'Planogram') as first field; only the Fixture rows have the token removed.
C7_OnlyFixtureDropsToken ==
  FixtureDone =>
    /\ ProductRowsKeepToken
    /\ FixtureRowsDropToken
    /\ LET rows == read_planogram_rows_from_bytes(psa_bytes) IN
       /\ Len(rows) = Cardinality(PlanogramLines)
       /\ \A k \in 1..Len(rows) :
            /\ rows[k] = merge_long_text_fields(parse_csv_line(NthLine(PlanogramLines, k)))
            /\ rows[k][1] = Planogram

\* a file with a row of each kind went through the three readers; the
\* Planogram table carries the token in its first column
C7_Witness ==
  /\ FixtureDone
  /\ psa_bytes = <<PlanogramFull, FixtureExact, HeaderLine, ProductShort>>
  /\ Rows(result["planogram_df"])[1][1] = Planogram
  /\ Rows(result["product_df"])[1][1] = Product
  /\ Rows(result["fixture_df"])[1][1] = Fixture
  /\ Rows(result["fixture_df"])[1][2] = <<"S", "h", "e", "l", "f">>

(***************************************************************************)
(* SpecVal: each validator run on the tables its pipeline can hand it.     *)
(* The tables are built by the pipelines' own steps from rows of text, so  *)
(* every cell is text; the numeric columns hold no surrounding whitespace  *)
(* and no exponent notation, and no number lies at a tolerance itself.     *)
(***************************************************************************)
\* a Product row of n fields holding the cells of c in their columns' places
ProductRow(n, c) ==
  [k \in 1..n |->
     LET column == rename_columns(create_standard_headers(n), get_column_mapping)[k]
     IN IF column \in DOMAIN c THEN c[column] ELSE <<>>] \o <<>>

SoundProduct ==
  [Table_Name |-> <<"P", "r", "o", "d", "u", "c", "t">>, UPC |-> <<"0", "0", "0", "1", "2", "3", "4", "5", "6", "7", "8", "9", "0">>, Item_1_Description |-> <<"a">>,
   Width_Inches |-> <<"4">>, Height_Inches |-> <<"3">>, Depth_Inches |-> <<"5">>,
   Peg_Holes |-> <<"1">>, Peg_Hole_X |-> <<"2">>, Peg_Hole_Y |-> <<"0">>, Peg_Hole_2X |-> <<"3">>,
   Peg_Hole_2Y |-> <<"0">>, Peg_ID |-> <<"P">>, Order_Type |-> <<"0", "1">>, Has_Alt_UPC |-> <<>>,
   Relay_ID |-> <<"7">>, Squeeze_Width |-> <<"1">>, Squeeze_High |-> <<"1">>, Squeeze_Deep |-> <<"1">>,
   Expand_Width |-> <<"1">>, Expand_High |-> <<"1">>, Expand_Deep |-> <<"1">>,
   Front_Overhang_Inches |-> <<"0">>]

\* both peg positions beyond the width
PegsBeyondWidth ==
  [SoundProduct EXCEPT !.Peg_Hole_X = <<"9">>, !.Peg_Hole_2X = <<"9">>, !.Squeeze_High = <<"0">>,
                   !.UPC = <<"1", "2">>, !.Order_Type = <<"0", "3">>, !.Relay_ID = <<"8">>,
                   !.Front_Overhang_Inches = <<"1", ".", "5">>]

ProductRecords ==
  { SoundProduct,
    PegsBeyondWidth,
    \* no Peg_Holes to compare the second hole with
    [SoundProduct EXCEPT !.Peg_Holes = <<>>, !.Squeeze_High = <<>>, !.Expand_Deep = <<>>,
                         !.Has_Alt_UPC = <<"Y">>, !.Peg_ID = <<>>],
    \* no width to compare the holes with
    [SoundProduct EXCEPT !.Width_Inches = <<>>, !.Squeeze_High = <<"2">>, !.Squeeze_Deep = <<"0">>,
                         !.Expand_High = <<"1", ".", "0">>],
    \* no peg holes at all
    [SoundProduct EXCEPT !.Peg_Hole_X = <<"0">>, !.Peg_Hole_2X = <<>>, !.Squeeze_High = <<"a", "b", "c">>,
                         !.Height_Inches = <<"2">>, !.Width_Inches = <<"2">>, !.Depth_Inches = <<"2">>,
                         !.Peg_Holes = <<"0">>] }

\* rows of every column, of the columns up to Peg_Hole_2Y, and of the
\* columns up to Depth_Inches
ProductRowCatalog ==
  {ProductRow(238, c) : c \in ProductRecords}
  \cup {ProductRow(25, SoundProduct), ProductRow(8, PegsBeyondWidth)}

\* a Planogram row: the seven leading fields, then the pool that is searched
PlanogramRow(description, width, pool) ==
  <<<<"P", "l", "a", "n", "o", "g", "r", "a", "m">>, description, <<"x">>, width, <<"7", "2">>, <<"2", "4">>, <<"y">>>> \o pool

PlanogramRowCatalog ==
  { PlanogramRow(<<"P", "O", "G", " ", "1">>, <<"4", "8">>,
                 <<<<"7", ".", "8", "1">>, <<"1", ".", "2", "5">>, <<" ", "1", "4">>, <<"0", "1", "2", "3">>, <<"G", "E", "N", "E", "R", "A", "L", "_", "T", "C">>, <<"P", "R", "O", "D", "U", "C", "T", " ", "L", "I", "S", "T", "I", "N", "G", ".", "P", "S", "T">>, <<"S", "H", "E", "L", "F">>,
                   <<"N", "R", "_", "P", "_", "C", "_", "S", "E", "G", ".", "P", "S", "Y">>, <<"1", "2", "3", "4", "5", "0", "0", "4", "_", "1", "2", "x", ".", "p", "s", "a">>, <<"1", "/", "1", "2", "/", "2", "0", "9", "9">>>>),
    PlanogramRow(<<"P", "O", "G", " ", "2">>, <<"4", "8">>,
                 <<<<"1", "7">>, <<"4", "5", "6", "7">>, <<"G", "E", "N", "E", "R", "A", "L", "_", "T", "C">>, <<"P", "R", "O", "D", "U", "C", "T", " ", "L", "I", "S", "T", "I", "N", "G", ".", "P", "S", "T">>, <<"S", "H", "E", "L", "F">>,
                   <<"N", "R", "_", "P", "_", "C", "_", "S", "E", "G", ".", "P", "S", "Y">>, <<"1", "2", "3", "4", "5", "0", "0", "4", "_", "1", "2", "x", ".", "p", "s", "a">>, <<"1", "/", "1", "2", "/", "2", "0", "9", "9">>>>),
    \* Footage 3 against Width_Feet 4.0, a description with a sign, no date
    PlanogramRow(<<"P", "O", "G", "#", "3">>, <<"4", "8">>,
                 <<<<"2", "0">>, <<"G", "E", "N", "E", "R", "A", "L", "_", "T", "C">>, <<"P", "R", "O", "D", "U", "C", "T", " ", "L", "I", "S", "T", "I", "N", "G", ".", "P", "S", "T">>, <<"S", "H", "E", "L", "F">>,
                   <<"N", "R", "_", "P", "_", "C", "_", "S", "E", "G", ".", "P", "S", "Y">>, <<"1", "2", "3", "4", "5", "0", "0", "3", "_", "1", "2", "x", ".", "p", "s", "a">>>>),
    \* nothing found in the pool
    PlanogramRow(<<>>, <<>>, <<>>),
    \* three fields only
    <<<<"P", "l", "a", "n", "o", "g", "r", "a", "m">>, <<"P", "O", "G", " ", "5">>, <<"x">>>> }

\* a Fixture row of n fields holding the cells of c in their columns' places
FixtureRow(n, c) ==
  [k \in 1..n |->
     LET column == rename_columns(<<RawName(k - 1)>>, FIXTURE_FIELD_MAPPING)[1]
     IN IF column \in DOMAIN c THEN c[column] ELSE <<>>] \o <<>>

SoundShelf ==
  [Type |-> <<"0">>, Name |-> <<"A">>, X |-> <<"0">>, Width |-> <<"4", "8">>, Y |-> <<"1", "0">>, Z |-> <<"1", ".", "2", "5">>,
   Depth |-> <<"2", "4">>, Left_Overhang |-> <<"0">>, Right_Overhang |-> <<"0">>,
   Back_Overhang |-> <<"1", ".", "2", "5">>, Front_Overhang |-> <<"0">>, Notch |-> <<"3">>]

FixtureRecords ==
  { SoundShelf,
    [SoundShelf EXCEPT !.Name = <<"B">>, !.Z = <<"2">>, !.Y = <<"3">>, !.Left_Overhang = <<"1">>],
    [SoundShelf EXCEPT !.Name = <<"D", "e", "c", "k", " ", "1">>, !.Y = <<"5", ".", "7", "5">>, !.Z = <<"0", ".", "2", "5">>, !.Back_Overhang = <<"0">>],
    [SoundShelf EXCEPT !.Name = <<"D", "E", "C", "K", "2">>, !.Y = <<"6">>, !.Z = <<>>, !.Back_Overhang = <<"x">>],
    [SoundShelf EXCEPT !.Type = <<"4">>, !.Name = <<" ">>, !.Width = <<"0", ".", "5">>, !.Depth = <<"2", "1">>],
    [SoundShelf EXCEPT !.Type = <<"7">>, !.Name = <<"B">>, !.Width = <<"4", "6">>, !.Depth = <<>>],
    [SoundShelf EXCEPT !.Type = <<"S", "i", "g", "n">>, !.Name = <<"C">>, !.Width = <<"7">>, !.Depth = <<"7">>] }

\* rows of the expected count of fields, and one of fewer
FixtureRowCatalog ==
  {FixtureRow(EXPECTED_FIELD_COUNT, c) : c \in FixtureRecords}
  \cup {FixtureRow(150, SoundShelf)}

\* the sheets a reference workbook can hold
HandoffSheets ==
  { DataFrame(<<"Department", "Category", "Has_Alt_UPC">>,
              <<<<<<"1", "4">>, <<"0", "1", "2", "3">>, <<"N", "o">>>>, <<<<"0", "1", "7">>, <<"4", "5", "6", "7">>, <<"n", "o">>>>>>),
    DataFrame(<<"Department", "Category", "Has_Alt_UPC">>,
              <<<<<<"2", "0">>, <<"9", "9", "9", "9">>, <<"Y", "e", "s">>>>>>),
    DataFrame(<<"Department">>, <<<<<<" ", "1", "4">>>>, <<<<"0">>>>>>),
    DataFrame(<<"Store">>, <<<<<<"1">>>>>>) }

\* what the upload can give as reference: nothing, no bytes, a file that is
\* no workbook, a workbook without the sheet 'handoff', a workbook with it
ReferenceCatalog ==
  {NoReference, EmptyBytes, Unreadable}
  \cup {Workbook("Sheet1", sheet) : sheet \in {DataFrame(<<"Department">>, <<<<<<"1", "4">>>>>>)}}
  \cup {Workbook("handoff", sheet) : sheet \in HandoffSheets}

\* the sequences of 1 to n rows of a catalogue
RowsOf(catalog, n) == UNION {[1..k -> catalog] : k \in 1..n}

\* the tables extract_and_map_fixture validates: none on its first call,
\* and on its second the renamed table, which it builds once Field_Count
\* has passed
NoTable(fixture_rows) == NULL
\* the first call: validate_fixture_data(rows, None)
FirstCall(fixture_rows, df) == df = NoTable(fixture_rows)
SecondCall(fixture_rows, df) ==
  /\ passed(validate_field_count(fixture_rows))
  /\ df = fixture_df_renamed(fixture_rows)

InitVal ==
  /\ psa_bytes = <<>> /\ pc = "validate" /\ result = NULL
  /\ line = <<>> /\ parsed = NULL /\ fields = <<>> /\ mapped = NULL
  /\ validator \in {"Product", "Planogram", "Fixture"}
  /\ today \in IF validator = "Planogram" THEN Todays ELSE {739921}
  /\ self_excel_reference_bytes \in IF validator = "Fixture" THEN {NoReference}
                                    ELSE ReferenceCatalog
  /\ raw_rows \in CASE validator = "Product" -> RowsOf(ProductRowCatalog, MaxRows)
                    [] validator = "Planogram" -> RowsOf(PlanogramRowCatalog, MaxRows)
                    [] OTHER -> RowsOf(FixtureRowCatalog, MaxFixtureRows)
  /\ CASE validator = "Product" -> self_df = product_df_cleaned(raw_rows)
       [] validator = "Planogram" -> self_df = planogram_table(raw_rows, today)
       [] OTHER -> FirstCall(raw_rows, self_df) \/ SecondCall(raw_rows, self_df)
  /\ self_results = NULL
  /\ NoSession

validator_inputs == <<validator, self_df, raw_rows, self_excel_reference_bytes>>

\* product_validator.DataValidator.run_all_checks
ProductRunAllChecks ==
  /\ validator = "Product" /\ pc = "validate"
  /\ self_results' = product_run_all_checks(self_df, self_excel_reference_bytes)
  /\ pc' = "summarise"
  /\ UNCHANGED <<psa_bytes, today, result, line, parsed, fields, mapped>>
  /\ UNCHANGED validator_inputs
  /\ UNCHANGED session_vars

\* product_validator.DataValidator.get_summary
ProductGetSummary ==
  /\ validator = "Product" /\ pc = "summarise"
  /\ result' = product_get_summary(self_results)
  /\ pc' = "done"
  /\ UNCHANGED <<psa_bytes, today, line, parsed, fields, mapped, self_results>>
  /\ UNCHANGED validator_inputs
  /\ UNCHANGED session_vars

\* planogram_validator.DataValidator.run_all_checks
PlanogramRunAllChecks ==
  /\ validator = "Planogram" /\ pc = "validate"
  /\ self_results' = planogram_run_all_checks(self_df, self_excel_reference_bytes)
  /\ pc' = "summarise"
  /\ UNCHANGED <<psa_bytes, today, result, line, parsed, fields, mapped>>
  /\ UNCHANGED validator_inputs
  /\ UNCHANGED session_vars

\* planogram_validator.DataValidator.get_summary
PlanogramGetSummary ==
  /\ validator = "Planogram" /\ pc = "summarise"
  /\ result' = planogram_get_summary(self_results)
  /\ pc' = "done"
  /\ UNCHANGED <<psa_bytes, today, line, parsed, fields, mapped, self_results>>
  /\ UNCHANGED validator_inputs
  /\ UNCHANGED session_vars

\* fixture_validator.validate_fixture_data, which returns the results and
\* their summary together
ValidateFixtureData ==
  /\ validator = "Fixture" /\ pc = "validate"
  /\ self_results' = validate_fixture_data(raw_rows, self_df)[1]
  /\ result' = validate_fixture_data(raw_rows, self_df)[2]
  /\ pc' = "done"
  /\ UNCHANGED <<psa_bytes, today, line, parsed, fields, mapped>>
  /\ UNCHANGED validator_inputs
  /\ UNCHANGED session_vars

NextVal ==
  \/ ProductRunAllChecks
  \/ ProductGetSummary
  \/ PlanogramRunAllChecks
  \/ PlanogramGetSummary
  \/ ValidateFixtureData

SpecVal == InitVal /\ [][NextVal]_vars

(***************************************************************************)
(* Claims about the validators.                                            *)
(***************************************************************************)
\* the run has produced its results
Validated == pc # "validate"

\* the columns each check of a registry reads, in registry order
ProductNeeds ==
  << {"Relay_ID"}, {"UPC"}, {"Order_Type"}, {"Peg_Hole_X", "Width_Inches"},
     {"Peg_Hole_2X", "Peg_Holes", "Width_Inches"},
     {"Height_Inches"}, {"Width_Inches"}, {"Depth_Inches"},
     {"Squeeze_High"}, {"Expand_Width"}, {"Expand_High"}, {"Squeeze_Deep"},
     {"Squeeze_Width"}, {"Expand_Deep"}, {"Front_Overhang_Inches"},
     {"Peg_Hole_X", "Peg_Hole_Y", "Peg_Hole_2X", "Peg_Hole_2Y", "Peg_ID"},
     {"Has_Alt_UPC"}, {"Has_Alt_UPC"} >>

PlanogramNeeds ==
  << {"Print_1", "Print_2", "Print_3", "Print_4"}, {"Footage", "Width_Feet"},
     {"Drawing_ID"}, {"Effective_Date"}, {"Offset"}, {"Notch_Bar_Width"},
     {"Department"}, {"Category"}, {"Modular_Description"},
     {"Department"}, {"Category"} >>

FixtureNeeds ==
  << {}, {"Name"}, {"Type", "Width", "Depth"}, {"Y", "Notch"}, {"Type", "Name", "Y"},
     {"Type", "Name", "Z"}, {"Type", "Left_Overhang", "Right_Overhang", "Front_Overhang"},
     {"Type", "Name", "Back_Overhang"} >>

Needs(i) ==
  CASE validator = "Product" -> ProductNeeds[i]
    [] validator = "Planogram" -> PlanogramNeeds[i]
    [] OTHER -> FixtureNeeds[i]

\* the i-th result of the run is a reference check's
IsReferenceCheck(i) ==
  \/ validator = "Product" /\ i = 18
  \/ validator = "Planogram" /\ i \in {10, 11}

\* the column of the reference sheet the i-th check compares with
ReferenceColumn(i) == CHOOSE column \in Needs(i) : TRUE

\* the reference of the run cannot be compared with: it is no workbook, has
\* no sheet 'handoff', or the sheet lacks the column
UnusableReference(column) ==
  /\ provided(self_excel_reference_bytes)
  /\ \/ read_excel_raises(self_excel_reference_bytes)
     \/ ~HasColumn(read_excel(self_excel_reference_bytes), column)

\* the table of the run lacks a column the i-th check reads
LacksColumn(i) == \E column \in Needs(i) : ~HasColumn(self_df, column)

\* the i-th check of the run has nothing to compare
CannotCompare(i) ==
  \/ IsReferenceCheck(i) /\ UnusableReference(ReferenceColumn(i))
  \/ LacksColumn(i)

StatusFollowsErrorCount(r) ==
  /\ r.status \in {"PASS", "FAIL", "WARNING"}
  /\ r.status = "FAIL" => r.error_count > 0
  /\ r.status = "PASS" => r.error_count = 0

ReferenceChecks ==
  CASE validator = "Product" -> {"Has_Alt_UPC"}
    [] validator = "Planogram" -> {"Department", "Category"}
    [] OTHER -> {}

\* the results of the run that carry the name of the reference check on column
ReferenceResults(column) ==
  {i \in 1..Len(self_results) :
     self_results[i].check_name = column \o " Match Against Reference File"}

\* no reference was uploaded: None, or no bytes
AbsentReference == ~provided(self_excel_reference_bytes)

WithoutLeadingZeros(v) ==
  LET zeros == {k \in 0..Len(v) : \A i \in 1..k : v[i] = "0"}
  IN SubSeq(v, Max(zeros) + 1, Len(v))

\* the values of a column of a table, each without its leading zeros
Normalized(df, column) ==
  {WithoutLeadingZeros(Cell(df, r, column)) : r \in 1..Len(Rows(df))}

\* the normalized data values of the run absent from the normalized reference
AbsentFromReference(column) ==
  Normalized(self_df, column) \ Normalized(read_excel(self_excel_reference_bytes), column)

\* C15: for the Planogram Department and Category reference checks with a
\* readable reference sheet holding the column, leading zeros stripped from
\* every data value and every reference value: the check has status PASS if
\* and only if every data value is in the reference set; otherwise it has
\* status FAIL, error_count is the number of data values absent from the
\* reference, and the values the message lists are exactly those.
C15_ReferenceMatchAfterStrippingZeros ==
  Validated /\ validator = "Planogram" =>
    \A column \in ReferenceChecks :
       provided(self_excel_reference_bytes) /\ ~UnusableReference(column) =>
         \A i \in ReferenceResults(column) :
            /\ self_results[i].status = "PASS" <=> AbsentFromReference(column) = {}
            /\ self_results[i].status # "PASS" =>
                 /\ self_results[i].status = "FAIL"
                 /\ self_results[i].error_count = Cardinality(AbsentFromReference(column))
                 /\ {WithoutLeadingZeros(v) : v \in self_results[i].message_values}
                      = AbsentFromReference(column)

\* a run whose table holds the Category '0123' and the Department ' 14',
\* against a sheet listing the categories '0123' and '4567' and the
\* departments '14' and '017': the Category check passes, the Department
\* check fails on one value
C15_Witness ==
  /\ Validated /\ validator = "Planogram"
  /\ provided(self_excel_reference_bytes)
  /\ ~UnusableReference("Category") /\ ~UnusableReference("Department")
  /\ \E r \in 1..Len(Rows(self_df)) :
        Cell(self_df, r, "Category") = <<"0", "1", "2", "3">>
  /\ \E i \in ReferenceResults("Category") : self_results[i].status = "PASS"
  /\ \E i \in ReferenceResults("Department") :
        /\ self_results[i].status = "FAIL"
        /\ self_results[i].error_count = 1
        /\ self_results[i].message_values = {<<" ", "1", "4">>}

\* the run has returned its summary
Summarised == pc = "done"

\* some result of the run has status FAIL
SomeFail == \E i \in 1..Len(self_results) : self_results[i].status = "FAIL"

\* C16: the summary of every table's validation run carries an
\* overall_status, FAIL if at least one result of the run has status FAIL and
\* PASS otherwise.
C16_OverallStatusFromFails ==
  Summarised =>
    /\ "overall_status" \in DOMAIN result
    /\ result.overall_status = IF SomeFail THEN "FAIL" ELSE "PASS"

\* a Planogram run with a failed check, summarised without overall_status
C16_Witness ==
  /\ Summarised /\ validator = "Planogram"
  /\ SomeFail
  /\ DOMAIN result = {"total_checks", "passed", "failed", "warnings"}
  /\ result.failed > 0

\* the names of the checks of each registry, in the order run_all_checks and
\* validate_fixture_data call them
ProductCheckNames ==
  << "Relay_ID Uniformity", "UPC Length (13 digits)", "Order_Type Invalid Values",
     "Peg_Hole_X vs Width", "Peg_Hole_2X Position", "Height_Inches Invalid Values",
     "Width_Inches Invalid Values", "Depth_Inches Invalid Values",
     "Squeeze_High Must Equal 1", "Expand_Wide Must Equal 1", "Expand_High Must Equal 1",
     "Squeeze_Deep Must Equal 1", "Squeeze_Wide Must Equal 1", "Expand_Deep Must Equal 1",
     "Front_Overhang_Inches Less Than 1", "Peg_ID Required When Peg Holes Exist",
     "Has_Alt_UPC Must Be Null" >>

PlanogramCheckNames ==
  << "Print Fields Populated (ALL 4 Required)", "Footage Equals Width_Feet",
     "Drawing_ID Not Null", "Effective_Date Not Null", "Offset Not Null",
     "Notch_Bar_Width Not Null", "Department Not Null", "Category Not Null",
     "Modular_Description Alphanumeric Only" >>

FixtureCheckNames ==
  << "Field_Count", "Unique_Name", "Type_Dimensions", "Y_Not_Equal_Notch", "Deck_Shelf_Y",
     "Shelf_Z", "Shelf_Overhangs", "Shelf_Back_Overhang" >>

\* the names the run's list is to hold: the registry's, then the reference
\* checks' when a reference file was given
ExpectedCheckNames ==
  CASE validator = "Product" ->
         ProductCheckNames
         \o (IF provided(self_excel_reference_bytes)
             THEN <<"Has_Alt_UPC Match Against Reference File">> ELSE <<>>)
    [] validator = "Planogram" ->
         PlanogramCheckNames
         \o (IF provided(self_excel_reference_bytes)
             THEN << "Department Match Against Reference File",
                     "Category Match Against Reference File" >>
             ELSE <<>>)
    [] OTHER -> FixtureCheckNames

\* the run validates a table: every Product and Planogram run, and the
\* Fixture run that is given the renamed table
OnTable == validator = "Fixture" => self_df # NULL

\* C17: whatever the data, the list of results of a run on a table holds the
\* same check names in the same order: Product 17 (18 with a reference
\* file), Planogram 9 (11 with a reference file), Fixture 8 with Field_Count
\* first; one result per check, the names pairwise distinct, and no FAIL or
\* WARNING removes or reorders the results after it.
C17_FixedChecksInFixedOrder ==
  Validated /\ OnTable =>
    /\ Len(self_results) = Len(ExpectedCheckNames)
    /\ \A i \in 1..Len(self_results) : self_results[i].check_name = ExpectedCheckNames[i]
    /\ \A i, j \in 1..Len(self_results) :
          i # j => self_results[i].check_name # self_results[j].check_name
    /\ Len(self_results) = CASE validator = "Product" ->
                                  IF provided(self_excel_reference_bytes) THEN 18 ELSE 17
                             [] validator = "Planogram" ->
                                  IF provided(self_excel_reference_bytes) THEN 11 ELSE 9
                             [] OTHER -> 8

\* a Fixture run whose Unique_Name check fails and whose later checks are all
\* in the list, one of them failed and one passed
C17_Witness ==
  /\ Validated /\ validator = "Fixture" /\ OnTable
  /\ Len(self_results) = 8
  /\ self_results[1].check_name = "Field_Count"
  /\ self_results[2].status = "FAIL"
  /\ \E i \in 3..8 : self_results[i].status = "FAIL"
  /\ \E i \in 3..8 : self_results[i].status = "PASS"

\* the Name of row r of the run's table
NameOf(r) == Cell(self_df, r, "Name")

\* the rows whose Name is blank, and those whose non-blank Name is also the
\* Name of another row
BlankNamed ==
  {r \in 1..Len(Rows(self_df)) : \A i \in 1..Len(NameOf(r)) : NameOf(r)[i] \in Whitespace}
SharedNamed ==
  {r \in 1..Len(Rows(self_df)) \ BlankNamed :
     \E q \in 1..Len(Rows(self_df)) : q # r /\ NameOf(q) = NameOf(r)}

\* the Unique_Name result of a Fixture run on a table
UniqueNameResult == self_results[2]

\* C18: validate_unique_names reports error_count equal to the number of
\* rows with a blank Name plus the number of rows whose non-blank Name occurs
\* in more than one row, every occurrence counted; pass_count equal to the
\* row count minus error_count; and FAIL exactly when error_count > 0.
C18_BlankAndRepeatedNamesCounted ==
  Validated /\ validator = "Fixture" /\ self_df # NULL =>
    /\ UniqueNameResult.check_name = "Unique_Name"
    /\ UniqueNameResult.error_count = Cardinality(BlankNamed) + Cardinality(SharedNamed)
    /\ UniqueNameResult.pass_count = Len(Rows(self_df)) - UniqueNameResult.error_count
    /\ UniqueNameResult.status = "FAIL" <=> UniqueNameResult.error_count > 0
    /\ UniqueNameResult.status \in {"PASS", "FAIL"}

\* the names A, B, A: error_count 2, pass_count 1, FAIL
C18_Witness ==
  /\ Validated /\ validator = "Fixture" /\ self_df # NULL
  /\ Len(Rows(self_df)) = 3
  /\ NameOf(1) = <<"A">> /\ NameOf(2) = <<"B">> /\ NameOf(3) = <<"A">>
  /\ UniqueNameResult.status = "FAIL"
  /\ UniqueNameResult.error_count = 2
  /\ UniqueNameResult.pass_count = 1

\* the exact-value checks of the Product registry, by their place in it
ExactValueChecks == 9..14

\* the column the i-th check of the Product registry reads
ColumnOf(i) == CHOOSE column \in ProductNeeds[i] : TRUE

\* the rows of the run's table by the text their cell of a column holds:
\* nothing, text that is no number, the number 0, the number 1, another number
NullIn(column) ==
  {r \in 1..Len(Rows(self_df)) : Cell(self_df, r, column) = <<>>}
UnparseableIn(column) ==
  {r \in 1..Len(Rows(self_df)) \ NullIn(column) : float_of(Cell(self_df, r, column)) = <<>>}
NumberIn(column) == 1..Len(Rows(self_df)) \ (NullIn(column) \cup UnparseableIn(column))
ZeroIn(column) ==
  {r \in NumberIn(column) : float_of(Cell(self_df, r, column))[1] = 0}
OneIn(column) ==
  {r \in NumberIn(column) :
     float_of(Cell(self_df, r, column))[1] = float_of(Cell(self_df, r, column))[2]}
OtherIn(column) == NumberIn(column) \ (ZeroIn(column) \cup OneIn(column))

\* C19: the exact-value check on Squeeze_High, and its five siblings, report
\* error_count equal to the number of rows whose value is null, unparseable,
\* zero or a number other than 1, and pass_count equal to the number of rows
\* whose value is 1, the two adding up to the row count; the status is FAIL
\* exactly when error_count > 0, and a FAIL tallies the rows without a number
\* and the rows holding zero separately.
C19_OnlyOnePasses ==
  Validated /\ validator = "Product" =>
    \A i \in ExactValueChecks :
       HasColumn(self_df, ColumnOf(i)) =>
         /\ self_results[i].error_count =
              Cardinality(NullIn(ColumnOf(i))) + Cardinality(UnparseableIn(ColumnOf(i)))
              + Cardinality(ZeroIn(ColumnOf(i))) + Cardinality(OtherIn(ColumnOf(i)))
         /\ self_results[i].pass_count = Cardinality(OneIn(ColumnOf(i)))
         /\ self_results[i].error_count + self_results[i].pass_count = Len(Rows(self_df))
         /\ self_results[i].status = "FAIL" <=> self_results[i].error_count > 0
         /\ self_results[i].status \in {"PASS", "FAIL"}
         /\ self_results[i].status = "FAIL" =>
              /\ self_results[i].null_count =
                   Cardinality(NullIn(ColumnOf(i))) + Cardinality(UnparseableIn(ColumnOf(i)))
              /\ self_results[i].zero_count = Cardinality(ZeroIn(ColumnOf(i)))

\* a table of a row with Squeeze_High 0 and a row without Squeeze_High: two
\* errors, one tallied as zero and one as null, while Expand_High, 1 in both
\* rows, passes
C19_Witness ==
  /\ Validated /\ validator = "Product"
  /\ Len(Rows(self_df)) = 2
  /\ HasColumn(self_df, "Squeeze_High")
  /\ Cardinality(ZeroIn("Squeeze_High")) = 1 /\ Cardinality(NullIn("Squeeze_High")) = 1
  /\ self_results[9].check_name = "Squeeze_High Must Equal 1"
  /\ self_results[9].status = "FAIL"
  /\ self_results[9].error_count = 2 /\ self_results[9].pass_count = 0
  /\ self_results[9].null_count = 1 /\ self_results[9].zero_count = 1
  /\ self_results[11].status = "PASS" /\ self_results[11].pass_count = 2

\* the cross-field checks of the Product registry, by their place in it
CrossFieldChecks == {4, 5}

\* the number a cell of the run's table holds, <<>> when it holds none
NumberAt(r, column) == float_of(Cell(self_df, r, column))

\* a is a number, b is a number, and a < b
Below(a, b) == a # <<>> /\ b # <<>> /\ a[1] * b[2] < b[1] * a[2]

\* the cell is null, or zero
NullOrZero(r, column) == NumberAt(r, column) = <<>> \/ NumberAt(r, column)[1] = 0

\* the rows in which none of the values the i-th check compares is null or zero
ComparedRows(i) ==
  {r \in 1..Len(Rows(self_df)) : \A column \in ProductNeeds[i] : ~NullOrZero(r, column)}

\* the order the i-th check requires of the values of row r
InOrder(i, r) ==
  IF i = 4
  THEN Below(NumberAt(r, "Peg_Hole_X"), NumberAt(r, "Width_Inches"))
  ELSE /\ Below(NumberAt(r, "Peg_Holes"), NumberAt(r, "Peg_Hole_2X"))
       /\ Below(NumberAt(r, "Peg_Hole_2X"), NumberAt(r, "Width_Inches"))

\* the table of the run has the columns the i-th check compares
HasColumnsOf(i) == \A column \in ProductNeeds[i] : HasColumn(self_df, column)

\* C20, as stated: in the two cross-field checks a row in which any compared
\* value is null or zero is counted neither in error_count nor in pass_count:
\* the errors are the compared rows out of order, and error_count + pass_count
\* is the number of compared rows.
C20_NullOrZeroRowsExcluded ==
  Validated /\ validator = "Product" =>
    \A i \in CrossFieldChecks :
       HasColumnsOf(i) =>
         /\ self_results[i].error_count =
              Cardinality({r \in ComparedRows(i) : ~InOrder(i, r)})
         /\ self_results[i].error_count + self_results[i].pass_count
              = Cardinality(ComparedRows(i))

\* the rows each check compares: Peg_Hole_X and Width_Inches both above zero;
\* Peg_Hole_2X above zero, whatever Peg_Holes and Width_Inches hold
CheckedRows(i) ==
  {r \in 1..Len(Rows(self_df)) :
     IF i = 4
     THEN Below(<<0, 1>>, NumberAt(r, "Peg_Hole_X")) /\ Below(<<0, 1>>, NumberAt(r, "Width_Inches"))
     ELSE Below(<<0, 1>>, NumberAt(r, "Peg_Hole_2X"))}

\* C20, amended: a row whose Peg_Hole_X or Width_Inches (first check), or
\* whose Peg_Hole_2X (second check), is null or not above zero is never
\* counted in error_count and is counted in pass_count: error_count is the
\* number of checked rows out of order, a checked row without Peg_Holes or
\* Width_Inches being out of order, and error_count + pass_count is the row
\* count.
C20_SkippedRowsCountedAsPassed ==
  Validated /\ validator = "Product" =>
    \A i \in CrossFieldChecks :
       HasColumnsOf(i) =>
         /\ self_results[i].error_count =
              Cardinality({r \in CheckedRows(i) : ~InOrder(i, r)})
         /\ self_results[i].error_count + self_results[i].pass_count = Len(Rows(self_df))
         /\ self_results[i].checked_count = Cardinality(CheckedRows(i))
         /\ self_results[i].status = IF self_results[i].error_count > 0 THEN "FAIL" ELSE "PASS"

\* a table of a sound row and a row without Width_Inches: the first check
\* compares one row and passes with pass_count 2; the second counts the row
\* without width as an error
C20_Witness ==
  /\ Validated /\ validator = "Product"
  /\ Len(Rows(self_df)) = 2
  /\ HasColumnsOf(4) /\ HasColumnsOf(5)
  /\ Cell(self_df, 2, "Width_Inches") = <<>>
  /\ ComparedRows(4) = {1} /\ ComparedRows(5) = {1}
  /\ self_results[4].status = "PASS" /\ self_results[4].pass_count = 2
  /\ self_results[5].status = "FAIL"
  /\ self_results[5].error_count = 1 /\ self_results[5].pass_count = 1

(***************************************************************************)
(* Claims about the Fixture checks keyed on the type and name of a row.    *)
(***************************************************************************)
\* the places of Deck_Shelf_Y, Shelf_Z, Shelf_Overhangs and
\* Shelf_Back_Overhang among the results of a Fixture run on a table
KeyedChecks == 5..8

\* the text of the cell of row r, without surrounding whitespace
Trimmed(r, column) == strip(Cell(self_df, r, column))

\* row r is a Shelf; its Name starts with DECK in any case
ShelfRow(r) == Trimmed(r, "Type") = <<"S", "h", "e", "l", "f">>
DeckNamed(r) ==
  /\ Len(Trimmed(r, "Name")) >= 4
  /\ lower(SubSeq(Trimmed(r, "Name"), 1, 4)) = <<"d", "e", "c", "k">>

\* the rows result i is about
MatchingRows(i) ==
  {r \in 1..Len(Rows(self_df)) : ShelfRow(r) /\ (i = 5 => DeckNamed(r))}

\* a Fixture run on a table has produced its results
FixtureValidated == Validated /\ validator = "Fixture" /\ self_df # NULL

\* the cell of row r holds a number within 0.01 of n/d
Near(r, column, n, d) ==
  /\ NumberAt(r, column) # <<>>
  /\ LET x == NumberAt(r, column)
         diff == x[1] * d - n * x[2]
     IN 100 * (IF diff < 0 THEN 0 - diff ELSE diff) < x[2] * d

\* the Shelf rows whose Z is not the one expected of them
WrongZ ==
  {r \in MatchingRows(6) :
     ~(IF DeckNamed(r) THEN Near(r, "Z", 1, 4) ELSE Near(r, "Z", 5, 4))}

\* C21: in Deck_Shelf_Y, Shelf_Z, Shelf_Overhangs and Shelf_Back_Overhang
\* error_count + pass_count equals the number of rows matching the check's
\* category (Shelf rows; DECK-named Shelf rows for Deck_Shelf_Y), also when
\* no row matches; Shelf_Z counts the Shelf rows whose Z is not 0.25 for a
\* DECK-named Shelf and not 1.25 for any other Shelf.
C21_NonMatchingRowsExcluded ==
  FixtureValidated =>
    /\ \A i \in KeyedChecks :
         self_results[i].error_count + self_results[i].pass_count
           = Cardinality(MatchingRows(i))
    /\ self_results[6].error_count = Cardinality(WrongZ)

\* C21 as the code has it: when some row matches, error_count + pass_count
\* is the number of matching rows; when none matches the check passes with
\* every row of the table counted as passed; Shelf_Z counts the Shelf rows
\* whose Z is not the one expected of them.
C21_ExcludedWhenSomeRowMatches ==
  FixtureValidated =>
    /\ \A i \in KeyedChecks :
         IF MatchingRows(i) # {}
         THEN self_results[i].error_count + self_results[i].pass_count
                = Cardinality(MatchingRows(i))
         ELSE /\ self_results[i].status = "PASS"
              /\ self_results[i].error_count = 0
              /\ self_results[i].pass_count = Len(Rows(self_df))
    /\ self_results[6].error_count = Cardinality(WrongZ)

\* a table without any Shelf, whose rows Shelf_Z all counts as passed
C21_Witness ==
  /\ FixtureValidated
  /\ MatchingRows(6) = {}
  /\ self_results[6].check_name = "Shelf_Z"
  /\ self_results[6].status = "PASS"
  /\ self_results[6].pass_count = Len(Rows(self_df))
  /\ self_results[6].pass_count > 0

(***************************************************************************)
(* Claims about columns that are missing and cells that hold no number.    *)
(***************************************************************************)
\* text that is not blank and is no numeral
NotANumber(v) == strip(v) # <<>> /\ float_of(v) = <<>>

\* the types validate_type_dimensions has a rule for
RuledTypes ==
  { <<"S", "h", "e", "l", "f">>, <<"R", "o", "d">>, <<"B", "a", "r">>,
    <<"P", "e", "g", "b", "o", "a", "r", "d">> }

\* the columns the i-th Fixture check converts to numbers
FixtureParsed(i) ==
  CASE i = 3 -> {"Width", "Depth"}
    [] i = 5 -> {"Y"}
    [] i = 6 -> {"Z"}
    [] i = 7 -> {"Left_Overhang", "Right_Overhang", "Front_Overhang"}
    [] i = 8 -> {"Back_Overhang"}
    [] OTHER -> {}

\* the rows the i-th Fixture check converts the cells of
FixtureConverted(i) ==
  IF i = 3
  THEN {r \in 1..Len(Rows(self_df)) :
          /\ Trimmed(r, "Type") \in RuledTypes
          /\ Trimmed(r, "Width") # <<>> /\ Trimmed(r, "Depth") # <<>>}
  ELSE IF i \in KeyedChecks THEN MatchingRows(i) ELSE {}

\* the rows in which the i-th check of the run meets text that is no number
\* where it converts a cell to a number
UnparseableRows(i) ==
  CASE validator = "Product" /\ i \in ExactValueChecks ->
         IF HasColumn(self_df, ColumnOf(i))
         THEN {r \in 1..Len(Rows(self_df)) : NotANumber(Cell(self_df, r, ColumnOf(i)))}
         ELSE {}
    \* the mapper leaves '' where it found no Footage, which float() rejects
    [] validator = "Planogram" /\ i = 2 ->
         {r \in 1..Len(Rows(self_df)) : float_of(Cell(self_df, r, "Footage")) = <<>>}
    [] validator = "Fixture" /\ i \in 3..8 ->
         {r \in FixtureConverted(i) :
            \E column \in FixtureParsed(i) : NotANumber(Cell(self_df, r, column))}
    [] OTHER -> {}

\* C22, as stated: a check whose table lacks a column it reads, or that
\* meets a cell it cannot parse as a number, reports WARNING, the
\* unparseable cell not counted in error_count, and the registry runs every
\* later check.
C22_UnparseableIsWarning ==
  Validated /\ OnTable =>
    /\ Len(self_results) = Len(ExpectedCheckNames)
    /\ \A i \in 1..Len(self_results) :
         ~IsReferenceCheck(i) /\ (LacksColumn(i) \/ UnparseableRows(i) # {}) =>
            /\ self_results[i].status = "WARNING"
            /\ self_results[i].error_count = 0

\* C22 as the code has it: a check reports WARNING, with error_count 0,
\* exactly when its table lacks a column it reads; a check that meets text
\* it cannot parse as a number counts the row in error_count and reports
\* FAIL; in both cases the registry runs every later check.
C22_MissingColumnWarnsUnparseableFails ==
  Validated /\ OnTable =>
    /\ Len(self_results) = Len(ExpectedCheckNames)
    /\ \A i \in 1..Len(self_results) :
         ~IsReferenceCheck(i) =>
            /\ self_results[i].status = "WARNING" <=> LacksColumn(i)
            /\ self_results[i].status = "WARNING" => self_results[i].error_count = 0
            /\ UnparseableRows(i) # {} =>
                 /\ self_results[i].status = "FAIL"
                 /\ self_results[i].error_count >= Cardinality(UnparseableRows(i))

\* a Fixture run in which a Shelf has text for Back_Overhang: the last check
\* fails on it, after all the others have run
C22_Witness ==
  /\ Validated /\ validator = "Fixture" /\ OnTable
  /\ Len(self_results) = 8
  /\ UnparseableRows(8) # {}
  /\ self_results[8].check_name = "Shelf_Back_Overhang"
  /\ self_results[8].status = "FAIL"
  /\ self_results[8].error_count >= 1

(***************************************************************************)
(* The same upload served twice.  The service calls process_psa_file for   *)
(* each upload; between two uploads the interpreter serving them can be    *)
(* another one (a restart, another worker), with another string hash seed. *)
(***************************************************************************)
\* the seeds kept of those an interpreter can start with: the order in which
\* a set of strings is iterated depends on the seed
HashSeeds == {0, 1}

\* re.findall(r'[^A-Za-z0-9\s]', value_str)
special_chars_of(value_str) ==
  SelectSeq(value_str,
            LAMBDA c : c \notin ({UpperLetters[k] : k \in 1..26} \cup {LowerLetters[k] : k \in 1..26}
                                 \cup Digits \cup Whitespace))

\* the elements of s, each once, in the order of their first occurrence
RECURSIVE first_occurrences(_)
first_occurrences(s) ==
  IF s = <<>> THEN <<>>
  ELSE <<s[1]>> \o first_occurrences(SelectSeq(Tail(s), LAMBDA c : c # s[1]))

\* the elements of set(chars) in the order a join iterates them under the
\* seed: one order under one seed, the reverse under the other
iterate_set(chars, seed) ==
  LET once == first_occurrences(chars)
  IN IF seed = 0 THEN once ELSE [k \in 1..Len(once) |-> once[Len(once) + 1 - k]] \o <<>>

\* the failed rows check_modular_description_alphanumeric lists in details,
\* each with its row number and ', '.join(set(special_chars))
alphanumeric_details(df, seed) ==
  LET value(r) == Cell(df, r, "Modular_Description")
      failed_rows == SelectSeq([r \in 1..Len(Rows(df)) |-> r],
                               LAMBDA r : strip(value(r)) # <<>> /\ special_chars_of(value(r)) # <<>>)
  IN [k \in 1..(IF Len(failed_rows) > 10 THEN 10 ELSE Len(failed_rows)) |->
        [row |-> failed_rows[k] + 1,
         special_chars |-> iterate_set(special_chars_of(value(failed_rows[k])), seed)]] \o <<>>

\* the results of a Planogram run with the details of the failed
\* Modular_Description check
with_details(validation_results, df, seed) ==
  [i \in 1..Len(validation_results) |->
     IF /\ validation_results[i].check_name = "Modular_Description Alphanumeric Only"
        /\ validation_results[i].status = "FAIL"
     THEN validation_results[i] @@ [details |-> alphanumeric_details(df, seed)]
     ELSE validation_results[i]] \o <<>>

\* the bundle process_psa_file returns
process_psa_file(lines, now, seed) ==
  LET planogram == Entries("planogram_df", "planogram_validation", "planogram_summary",
                           extract_planogram_data(lines, now))
  IN Entries("product_df", "product_validation", "product_summary", extract_product_data(lines))
     @@ ("planogram_validation" :>
           with_details(planogram["planogram_validation"], planogram["planogram_df"], seed))
     @@ planogram
     @@ Entries("fixture_df", "fixture_validation", "fixture_summary", extract_fixture_data(lines))

\* Planogram rows whose Modular_Description holds two special characters,
\* and one
PlanogramTwoSpecial == <<"P", "l", "a", "n", "o", "g", "r", "a", "m", ",", "P", "#", "-", "G", ",", "x", ",", "4", "8">>
PlanogramOneSpecial == <<"P", "l", "a", "n", "o", "g", "r", "a", "m", ",", "P", "#", "G", ",", "x", ",", "2", "4">>

\* the uploads served twice: at most MaxUploadLines lines
MaxUploadLines == 2
Uploads ==
  UNION {[1..k -> {HeaderLine, ProductShort, PlanogramFull, PlanogramTwoSpecial,
                   PlanogramOneSpecial, FixtureExact}] : k \in 0..MaxUploadLines}

InitRerun ==
  /\ psa_bytes \in Uploads
  /\ today \in Todays
  /\ hash_seed \in HashSeeds
  /\ pc = "first" /\ result = NULL /\ previous = NULL /\ runs = 0 /\ exported = <<>>
  /\ line = <<>> /\ parsed = NULL /\ fields = <<>> /\ mapped = <<>>
  /\ NoValidator

\* process_psa_file on the upload, the clock held at today
ProcessPsaFile ==
  /\ pc \in {"first", "second"}
  /\ previous' = result
  /\ result' = process_psa_file(psa_bytes, today, hash_seed)
  /\ pc' = IF pc = "first" THEN "second" ELSE "done"
  /\ UNCHANGED <<psa_bytes, today, line, parsed, fields, mapped, hash_seed, runs, exported>>
  /\ UNCHANGED validator_vars

\* the second upload is served by another interpreter
NewInterpreter ==
  /\ pc = "second"
  /\ hash_seed' \in HashSeeds \ {hash_seed}
  /\ UNCHANGED <<psa_bytes, today, pc, result, line, parsed, fields, mapped, previous, runs, exported>>
  /\ UNCHANGED validator_vars

NextRerun == ProcessPsaFile \/ NewInterpreter

SpecRerun == InitRerun /\ [][NextRerun]_vars

\* both calls have returned
ServedTwice == pc = "done"

\* C23: with the clock held fixed, two calls of process_psa_file on the same
\* bytes return equal bundles: equal tables, equal result lists (names,
\* statuses, counts and details in the same order) and equal summaries.
C23_RerunReturnsEqualBundle ==
  ServedTwice => result = previous

\* two calls that differ in nothing but the details of the
\* Modular_Description check: the tables, the summaries and the other
\* results are equal
C23_Witness ==
  /\ ServedTwice
  /\ result # previous
  /\ result["planogram_df"] = previous["planogram_df"]
  /\ result["planogram_summary"] = previous["planogram_summary"]
  /\ result["product_validation"] = previous["product_validation"]
  /\ result["fixture_validation"] = previous["fixture_validation"]
  /\ \E i \in 1..Len(result["planogram_validation"]) :
        /\ result["planogram_validation"][i].check_name = "Modular_Description Alphanumeric Only"
        /\ result["planogram_validation"][i].status = "FAIL"
        /\ result["planogram_validation"][i].error_count
             = previous["planogram_validation"][i].error_count
        /\ result["planogram_validation"][i].details
             # previous["planogram_validation"][i].details

(***************************************************************************)
(* The Planogram tokenizer on its own: parse_csv_line applied to every     *)
(* short line over a letter, the comma, the double quote and the backslash.*)
(***************************************************************************)
CsvAlphabet == {"a", ",", "\"", backslash}

CsvLines == UNION {[1..k -> CsvAlphabet] : k \in 0..MaxLineLen}

InitCsv ==
  /\ line \in CsvLines
  /\ parsed = NULL
  /\ psa_bytes = <<>> /\ today = 0 /\ pc = "idle" /\ result = <<>>
  /\ fields = <<>> /\ mapped = <<>>
  /\ NoValidator
  /\ NoSession

CallParseCsvLine ==
  /\ parsed = NULL
  /\ parsed' = parse_csv_line(line)
  /\ UNCHANGED <<psa_bytes, today, pc, result, line, fields, mapped>>
  /\ UNCHANGED validator_vars
  /\ UNCHANGED session_vars

NextCsv == CallParseCsvLine

SpecCsv == InitCsv /\ [][NextCsv]_vars

\* the double quotes of the line, and the positions they enclose: those
\* with an odd number of quotes before them
Quotes(ln) == {i \in 1..Len(ln) : ln[i] = "\""}
InsideQuotes(ln, i) == Cardinality({q \in Quotes(ln) : q < i}) % 2 = 1

\* the commas outside quoted regions, and those of them with no backslash
\* right before
CommasOutsideQuotes(ln) ==
  {i \in 1..Len(ln) : ln[i] = "," /\ ~InsideQuotes(ln, i)}
UnescapedCommasOutsideQuotes(ln) ==
  {i \in CommasOutsideQuotes(ln) : ~(i > 1 /\ ln[i - 1] = backslash)}

\* the line cut at the commas of seps, the double quotes left out
CutAt(ln, seps) ==
  LET at == Ascending(seps)
      lo(k) == IF k = 1 THEN 0 ELSE at[k - 1]
      hi(k) == IF k = Len(at) + 1 THEN Len(ln) + 1 ELSE at[k]
  IN [k \in 1..(Len(at) + 1) |->
        Pick(ln, {i \in 1..Len(ln) : lo(k) < i /\ i < hi(k) /\ i \notin Quotes(ln)})]

\* C24, as stated: parse_csv_line splits exactly at the commas that are
\* outside double-quoted regions and not preceded by a backslash, and
\* returns one field more than there are such commas.
C24_SplitsAtUnescapedCommasOutsideQuotes ==
  parsed # NULL =>
    /\ Len(parsed) = Cardinality(UnescapedCommasOutsideQuotes(line)) + 1
    /\ parsed = CutAt(line, UnescapedCommasOutsideQuotes(line))

\* C24 as the code has it: parse_csv_line splits exactly at the commas
\* outside double-quoted regions, a backslash before the comma or not; a
\* double quote toggles the inside-quotes state and is left out of the
\* fields, a backslash is kept as it is, and the number of fields is one
\* more than the number of commas outside quotes.
C24_SplitsAtCommasOutsideQuotes ==
  parsed # NULL =>
    /\ Len(parsed) = Cardinality(CommasOutsideQuotes(line)) + 1
    /\ parsed = CutAt(line, CommasOutsideQuotes(line))

\* a quoted comma that does not split and a comma after a backslash that does
C24_Witness ==
  /\ parsed # NULL
  /\ line = <<"\"", ",", "\"", backslash, ",">>
  /\ parsed = <<<<",", backslash>>, <<>>>>

(***************************************************************************)
(* Claims about the fields derived from File_Name.                         *)
(***************************************************************************)
Letters == {UpperLetters[k] : k \in 1..26} \cup {LowerLetters[k] : k \in 1..26}

\* the position of the first underscore of a text, 0 when it has none
FirstUnderscore(text) ==
  IF \E i \in 1..Len(text) : text[i] = "_"
  THEN CHOOSE i \in 1..Len(text) : text[i] = "_" /\ \A j \in 1..(i - 1) : text[j] # "_"
  ELSE 0

\* the longest run of digits of a text that starts at position p
DigitRunFrom(text, p) ==
  LET ends == {n \in 0..(Len(text) - p + 1) : \A k \in p..(p + n - 1) : text[k] \in Digits}
  IN SubSeq(text, p, p + Max(ends) - 1)

\* the text starts a run of digits right after its first underscore
DigitAfterUnderscore(text) ==
  /\ FirstUnderscore(text) # 0
  /\ FirstUnderscore(text) < Len(text)
  /\ text[FirstUnderscore(text) + 1] \in Digits

\* the position of the first letter after the first underscore of a text,
\* one past its end when there is none
FirstLetterAfterUnderscore(text) ==
  LET at == {i \in (FirstUnderscore(text) + 1)..Len(text) : text[i] \in Letters}
  IN IF at = {} THEN Len(text) + 1 ELSE CHOOSE i \in at : \A j \in at : i <= j

\* C25: Trait_Number is the run of digits that immediately follows the first
\* underscore of File_Name, which ends before the first alphabetic character
\* after that underscore; it is empty when File_Name has no underscore or
\* when the character right after the first underscore is not a digit.
C25_TraitNumberIsDigitRunAfterUnderscore ==
  Called =>
    LET text == mapped["File_Name"]
        trait == mapped["Trait_Number"]
    IN IF DigitAfterUnderscore(text)
       THEN /\ trait = DigitRunFrom(text, FirstUnderscore(text) + 1)
            /\ trait # <<>>
            /\ FirstUnderscore(text) + Len(trait) < FirstLetterAfterUnderscore(text)
       ELSE trait = <<>>

\* a File_Name whose run of digits after the underscore ends at a hyphen,
\* with another digit before the first letter
C25_Witness ==
  /\ Called
  /\ mapped["File_Name"] = <<"a", "_", "7", "-", "8", "b", ".", "p", "s", "a">>
  /\ mapped["Trait_Number"] = <<"7">>

(***************************************************************************)
(* The details of a failed check, on tables of up to MaxDetailRows rows.   *)
(* Of the text of details the model keeps what it enumerates: how many     *)
(* offending rows it lists, how many lines it spends on listing values,    *)
(* and the number its closing '... and N more' line states (0 without      *)
(* such a line).                                                           *)
(***************************************************************************)
MaxDetailRows == 12

Details(listed, value_lines, more) ==
  [listed |-> listed, value_lines |-> value_lines, more |-> more]

Least(a, b) == IF a < b THEN a ELSE b

\* check_relay_id_uniformity with the details of its FAIL: one line for each
\* Relay_ID found, then the UPC of error_rows.head(5)
check_relay_id_uniformity_detailed(df) ==
  LET r == check_relay_id_uniformity(df)
      unique_relay_ids == {Column(df, "Relay_ID")[k] : k \in 1..Len(Rows(df))}
  IN IF r.status # "FAIL" THEN r
     ELSE r @@ [details |->
                  Details(IF HasColumn(df, "UPC") /\ r.error_count > 0
                          THEN Least(5, r.error_count) ELSE 0,
                          Cardinality(unique_relay_ids), 0)]

\* _check_field_not_null with the details of its FAIL: the first 10 row
\* numbers on one line, then the marker when error_count > 10
check_field_not_null_detailed(df, field) ==
  LET r == check_field_not_null(df, field)
  IN IF r.status # "FAIL" THEN r
     ELSE r @@ [details |->
                  Details(Least(10, r.error_count), 0,
                          IF r.error_count > 10 THEN r.error_count - 10 ELSE 0)]

\* validate_unique_names with the details of its FAIL: failed_rows[:10],
\* then the marker when len(failed_rows) > 10; error_count is len(failed_rows)
validate_unique_names_detailed(df) ==
  LET r == validate_unique_names(df)
  IN IF r.status # "FAIL" THEN r
     ELSE r @@ [details |->
                  Details(Least(10, r.error_count), 0,
                          IF r.error_count > 10 THEN r.error_count - 10 ELSE 0)]

\* the two-digit numeral of k
Numeral(k) ==
  LET digit == <<"0", "1", "2", "3", "4", "5", "6", "7", "8", "9">>
  IN <<digit[(k \div 10) + 1], digit[(k % 10) + 1]>>

\* n values of which the first d are pairwise distinct and the others repeat
\* the first
Varied(n, d) == [r \in 1..n |-> Numeral(IF r <= d THEN r ELSE 1)] \o <<>>

\* Product rows with the given Relay_ID values, Fixture rows with the given
\* names, and Planogram rows of which the first k have an empty pool
ProductRowsWith(relay_ids) ==
  LET base == ProductRow(238, SoundProduct)
      at == CHOOSE k \in 1..238 :
              rename_columns(create_standard_headers(238), get_column_mapping)[k] = "Relay_ID"
  IN [r \in 1..Len(relay_ids) |-> [base EXCEPT ![at] = relay_ids[r]]] \o <<>>
FixtureRowsWith(names) ==
  LET base == FixtureRow(EXPECTED_FIELD_COUNT, SoundShelf)
      at == CHOOSE k \in 1..EXPECTED_FIELD_COUNT :
              rename_columns(<<RawName(k - 1)>>, FIXTURE_FIELD_MAPPING)[1] = "Name"
  IN [r \in 1..Len(names) |-> [base EXCEPT ![at] = names[r]]] \o <<>>
PlanogramRowsWith(n, k) ==
  [r \in 1..n |->
     IF r <= k THEN PlanogramRow(<<"P", "O", "G">>, <<"4", "8">>, <<>>)
     ELSE PlanogramRow(<<"P", "O", "G">>, <<"4", "8">>,
                       <<<<"7", ".", "8", "1">>, <<"1", ".", "2", "5">>, <<"1", "4">>, <<"0", "1", "2", "3">>,
                         <<"1", "2", "3", "4", "5", "0", "0", "4", "_", "1", "2", "x", ".", "p", "s", "a">>,
                         <<"1", "/", "1", "2", "/", "2", "0", "9", "9">>>>)] \o <<>>

InitDetails ==
  /\ psa_bytes = <<>> /\ pc = "check" /\ result = NULL
  /\ line = <<>> /\ parsed = NULL /\ fields = <<>> /\ mapped = NULL
  /\ today = 739921
  /\ validator \in {"Product", "Planogram", "Fixture"}
  /\ self_excel_reference_bytes = NoReference
  /\ \E n \in 1..MaxDetailRows :
       CASE validator = "Product" ->
              \E d \in 1..n : raw_rows = ProductRowsWith(Varied(n, d))
         [] validator = "Planogram" ->
              \E k \in 0..n : raw_rows = PlanogramRowsWith(n, k)
         [] OTHER ->
              \E d \in 1..n : raw_rows = FixtureRowsWith(Varied(n, d))
  /\ self_df = CASE validator = "Product" -> product_df_cleaned(raw_rows)
                 [] validator = "Planogram" -> planogram_table(raw_rows, today)
                 [] OTHER -> fixture_df_renamed(raw_rows)
  /\ self_results = <<>>
  /\ NoSession

\* product_validator.DataValidator.check_relay_id_uniformity
CheckRelayIdUniformity ==
  /\ validator = "Product" /\ pc = "check"
  /\ self_results' = Append(self_results, check_relay_id_uniformity_detailed(self_df))
  /\ pc' = "done"
  /\ UNCHANGED <<psa_bytes, today, result, line, parsed, fields, mapped>>
  /\ UNCHANGED validator_inputs
  /\ UNCHANGED session_vars

\* planogram_validator.DataValidator._check_field_not_null, as its six
\* callers call it
CheckFieldNotNull ==
  /\ validator = "Planogram" /\ pc = "check"
  /\ \E field \in {"Drawing_ID", "Effective_Date", "Offset", "Notch_Bar_Width",
                   "Department", "Category"} :
       self_results' = Append(self_results, check_field_not_null_detailed(self_df, field))
  /\ pc' = "done"
  /\ UNCHANGED <<psa_bytes, today, result, line, parsed, fields, mapped>>
  /\ UNCHANGED validator_inputs
  /\ UNCHANGED session_vars

\* fixture_validator.validate_unique_names
ValidateUniqueNames ==
  /\ validator = "Fixture" /\ pc = "check"
  /\ self_results' = Append(self_results, validate_unique_names_detailed(self_df))
  /\ pc' = "done"
  /\ UNCHANGED <<psa_bytes, today, result, line, parsed, fields, mapped>>
  /\ UNCHANGED validator_inputs
  /\ UNCHANGED session_vars

NextDetails == CheckRelayIdUniformity \/ CheckFieldNotNull \/ ValidateUniqueNames

SpecDetails == InitDetails /\ [][NextDetails]_vars

\* the most rows, and the most values, a check may list in details
InlineLimit == 10

\* C26: the details of every FAIL enumerate at most 10 offending rows, end
\* with a marker stating error_count - 10 when the check has more than 10
\* offending rows, and never spend more than 10 lines on listing values.
C26_DetailsBoundedWithMarker ==
  \A i \in 1..Len(self_results) :
     self_results[i].status = "FAIL" =>
       /\ self_results[i].details.listed <= InlineLimit
       /\ self_results[i].details.value_lines <= InlineLimit
       /\ self_results[i].details.more =
            (IF self_results[i].error_count > InlineLimit
             THEN self_results[i].error_count - InlineLimit ELSE 0)

\* twelve products with twelve Relay_IDs: eleven offending rows, of which
\* five are listed without a marker after them, and twelve lines of values
C26_Witness ==
  /\ validator = "Product" /\ pc = "done"
  /\ Len(Rows(self_df)) = 12
  /\ self_results[1].check_name = "Relay_ID Uniformity"
  /\ self_results[1].status = "FAIL"
  /\ self_results[1].error_count = 11
  /\ self_results[1].details = Details(5, 12, 0)

\* C27: in every bundle process_psa_file returns with a Fixture table, the
\* Fixture result list starts with Field_Count and that result is PASS.
C27_TableOnlyWithPassedFieldCount ==
  (FixtureDone /\ result["fixture_df"] # NULL) =>
    /\ Len(result["fixture_validation"]) >= 1
    /\ result["fixture_validation"][1].check_name = "Field_Count"
    /\ result["fixture_validation"][1].status = "PASS"
    /\ \A i \in 2..Len(result["fixture_validation"]) :
          result["fixture_validation"][i].check_name # "Field_Count"

\* a file with a Fixture row of 166 fields: the table is delivered with the
\* eight results, the first of them the passed Field_Count
C27_Witness ==
  /\ FixtureDone
  /\ FixtureExact \in {psa_bytes[k] : k \in 1..Len(psa_bytes)}
  /\ result["fixture_df"] # NULL
  /\ Len(result["fixture_validation"]) = 8
  /\ passed(result["fixture_validation"][1])
  /\ result["fixture_validation"][1].pass_count = Len(Rows(result["fixture_df"]))

(***************************************************************************)
(* One Product or Planogram DataValidator, run up to MaxRuns times, with   *)
(* get_summary called at any moment.                                       *)
(***************************************************************************)
MaxRuns == 3
MaxRunRows == 1   \* most rows of the table of a validator that is run again

\* self.results at the start of run_all_checks, were it not reset
results_kept(results) == results

\* self.results = [] at the start of run_all_checks
results_reset(results) == <<>>

InitRuns ==
  /\ psa_bytes = <<>> /\ pc = "new" /\ result = NULL
  /\ line = <<>> /\ parsed = NULL /\ fields = <<>> /\ mapped = NULL
  /\ validator \in {"Product", "Planogram"}
  /\ today = 739921
  /\ self_excel_reference_bytes \in ReferenceCatalog
  /\ raw_rows \in IF validator = "Product" THEN RowsOf(ProductRowCatalog, MaxRunRows)
                  ELSE RowsOf(PlanogramRowCatalog, MaxRunRows)
  /\ self_df = IF validator = "Product" THEN product_df_cleaned(raw_rows)
               ELSE planogram_table(raw_rows, today)
  \* DataValidator.__init__
  /\ self_results = <<>>
  /\ hash_seed = 0 /\ previous = NULL /\ runs = 0 /\ exported = <<>>

\* product_validator.DataValidator.run_all_checks, called again or not
ProductRunAgain ==
  /\ validator = "Product" /\ runs < MaxRuns
  /\ self_results' = results_reset(self_results)
                       \o product_run_all_checks(self_df, self_excel_reference_bytes)
  /\ runs' = runs + 1
  /\ pc' = "ran"
  /\ UNCHANGED <<psa_bytes, today, result, line, parsed, fields, mapped, hash_seed, previous, exported>>
  /\ UNCHANGED validator_inputs

\* planogram_validator.DataValidator.run_all_checks, called again or not
PlanogramRunAgain ==
  /\ validator = "Planogram" /\ runs < MaxRuns
  /\ self_results' = results_reset(self_results)
                       \o planogram_run_all_checks(self_df, self_excel_reference_bytes)
  /\ runs' = runs + 1
  /\ pc' = "ran"
  /\ UNCHANGED <<psa_bytes, today, result, line, parsed, fields, mapped, hash_seed, previous, exported>>
  /\ UNCHANGED validator_inputs

\* get_summary of either DataValidator, at any moment
GetSummary ==
  /\ pc \in {"new", "ran"}
  /\ result' = IF validator = "Product" THEN product_get_summary(self_results)
               ELSE planogram_get_summary(self_results)
  /\ pc' = "summarised"
  /\ UNCHANGED <<psa_bytes, today, line, parsed, fields, mapped, self_results>>
  /\ UNCHANGED validator_inputs
  /\ UNCHANGED session_vars

NextRuns == ProductRunAgain \/ PlanogramRunAgain \/ GetSummary

SpecRuns == InitRuns /\ [][NextRuns]_vars

\* the checks run_all_checks makes in one run
ChecksOfOneRun ==
  IF validator = "Product"
  THEN (IF provided(self_excel_reference_bytes) THEN 18 ELSE 17)
  ELSE (IF provided(self_excel_reference_bytes) THEN 11 ELSE 9)

OneRun ==
  IF validator = "Product"
  THEN product_run_all_checks(self_df, self_excel_reference_bytes)
  ELSE planogram_run_all_checks(self_df, self_excel_reference_bytes)

\* C28: after one or more run_all_checks calls on one DataValidator the
\* results are those of one run, and get_summary describes them alone:
\* total_checks is the number of checks of one run and passed + failed +
\* warnings = total_checks.
C28_SummaryOfMostRecentRun ==
  runs >= 1 =>
    /\ self_results = OneRun
    /\ Len(self_results) = ChecksOfOneRun
    /\ pc = "summarised" =>
         /\ result.total_checks = ChecksOfOneRun
         /\ result.passed + result.failed + result.warnings = result.total_checks
         /\ result.passed = CountStatus(OneRun, "PASS")
         /\ result.failed = CountStatus(OneRun, "FAIL")
         /\ result.warnings = CountStatus(OneRun, "WARNING")

\* a Product validator with a reference file, run three times and then
\* summarised: 18 checks, some of them failed
C28_Witness ==
  /\ validator = "Product" /\ runs = MaxRuns /\ pc = "summarised"
  /\ provided(self_excel_reference_bytes)
  /\ result.total_checks = 18
  /\ result.failed > 0 /\ result.passed > 0

\* the fields 7, 8, 9 and 11 to 16, which a search of the remainder fills
SearchedNames ==
  {"Offset", "Notch_Bar_Width", "Department", "Effective_Date",
   "Print_1", "Print_2", "Print_3", "Print_4", "File_Name"}

\* other fields 0 to 6 a row of the same remainder can have: empty ones, and
\* ones each search would match
OtherHeads ==
  { [k \in 1..7 |-> <<>>] \o <<>>,
    << <<"7", ".", "8", "1">>, <<"1", ".", "2", "5">>, <<"2", "2">>, <<"9", "9", "9", "9">>,
       <<"1", "/", "1", "9", "/", "2", "0", "9", "9">>,
       <<"g", "e", "n", "e", "r", "a", "l", "_", "t", "c", " ", "s", "h", "e", "l", "f">>,
       <<"n", "r", "_", "p", "_", "c", "_", "s", "e", "g", ".", "p", "s", "y", " ", "p", "r", "o", "d", "u", "c", "t", " ", "l", "i", "s", "t", "i", "n", "g", ".", "p", "s", "t", " ", "z", "_", "5", ".", "p", "s", "a">> >> }

\* the first field of the whole remainder that satisfies P, trimmed
FirstOfPool(P(_)) ==
  LET matching == {i \in 1..Len(Pool) : P(Pool[i])}
  IN IF matching = {} THEN <<>>
     ELSE strip(Pool[CHOOSE i \in matching : \A h \in matching : i <= h])

\* every search looks at the whole remainder, whatever the others matched
SearchesLeaveThePool ==
  /\ mapped["Offset"] = FirstOfPool(LAMBDA f : Contains(f, <<"7", ".", "8", "1">>))
  /\ mapped["Notch_Bar_Width"] = FirstOfPool(LAMBDA f : Contains(f, <<"1", ".", "2", "5">>))
  /\ strip(mapped["Department"]) = FirstOfPool(LAMBDA f : strip(f) \in target_values)
  /\ mapped["Print_1"] = FirstOfPool(LAMBDA f : Contains(lower(f), <<"g", "e", "n", "e", "r", "a", "l", "_", "t", "c">>))
  /\ mapped["Print_2"] = FirstOfPool(LAMBDA f : Contains(lower(f), <<"p", "r", "o", "d", "u", "c", "t", " ", "l", "i", "s", "t", "i", "n", "g", ".", "p", "s", "t">>))
  /\ mapped["Print_3"] = FirstOfPool(LAMBDA f : Contains(lower(f), <<"s", "h", "e", "l", "f">>) /\ Len(strip(f)) < 20)
  /\ mapped["Print_4"] = FirstOfPool(LAMBDA f : Contains(lower(f), <<"n", "r", "_", "p", "_", "c", "_", "s", "e", "g", ".", "p", "s", "y">>))
  /\ mapped["File_Name"] = FirstOfPool(LAMBDA f : Contains(lower(f), <<".", "p", "s", "a">>))

\* the searched fields of the row with the same remainder, other fields 0 to
\* 6 and the clock at now are those of `mapped`
SameSearched(names, now) ==
  \A head \in OtherHeads :
     LET other == smart_map_planogram_fields(head \o Pool, now)
     IN \A name \in names : other[name] = mapped[name]

\* C29 (as stated): a non-empty Category implies a non-empty Department, no
\* search consumes a field, and each of the fields 7, 8, 9, 11 to 16 depends
\* on the remainder alone.
C29_SearchedDependOnRemainderAlone ==
  Called =>
    /\ (mapped["Category"] # <<>> => mapped["Department"] # <<>>)
    /\ SearchesLeaveThePool
    /\ \A now \in Todays : SameSearched(SearchedNames, now)

\* C29 (amended): a non-empty Category implies a non-empty Department, no
\* search consumes a field, and each of the fields 7, 8, 9, 12 to 16 depends
\* on the remainder alone; field 11 (Effective_Date) depends on the remainder
\* and on the current date, and on nothing else.
C29_SearchedDependOnRemainderAndClock ==
  Called =>
    /\ (mapped["Category"] # <<>> => mapped["Department"] # <<>>)
    /\ SearchesLeaveThePool
    /\ \A now \in Todays : SameSearched(SearchedNames \ {"Effective_Date"}, now)
    /\ SameSearched({"Effective_Date"}, today)

\* one remainder field is the value of two outputs, a code with its 4-digit
\* field follows, and the date found depends on the day of the call
C29_Witness ==
  /\ Called
  /\ Pool = <<<<"7", ".", "8", "1", " ", "1", ".", "2", "5">>, <<" ", "1", "4">>,
              <<"E", "f", "f", " ", "1", "/", "1", "2", "/", "2", "0", "9", "9">>>>
  /\ mapped["Offset"] = Pool[1] /\ mapped["Notch_Bar_Width"] = Pool[1]
  /\ mapped["Department"] = <<" ", "1", "4">>
  /\ mapped["Effective_Date"] = <<"1", "/", "1", "2", "/", "2", "0", "9", "9">>
  /\ \E now \in Todays : smart_map_planogram_fields(fields, now)["Effective_Date"] = <<>>

(***************************************************************************)
(* excel_exporter.create_excel_export on the bundle of process_psa_file,   *)
(* called up to MaxExports times on the same bundle.  Of the ZIP it        *)
(* returns the model keeps what goes into Validation_Report.xlsx: the      *)
(* combined results and the combined summary.                              *)
(***************************************************************************)
MaxExports == 2

\* result.check_name = f"[Table] {result.check_name}": the results of the
\* bundle's list are the objects renamed
prefixed(table, validation_results) ==
  [i \in 1..Len(validation_results) |->
     [validation_results[i] EXCEPT
        !.check_name = "[" \o table \o "] " \o validation_results[i].check_name]] \o <<>>

\* the bundle after the three 'Add ... validation' blocks
renamed_bundle(data) ==
  [key \in DOMAIN data |->
     CASE key = "product_validation" -> prefixed("Product", data[key])
       [] key = "planogram_validation" -> prefixed("Planogram", data[key])
       [] key = "fixture_validation" -> prefixed("Fixture", data[key])
       [] OTHER -> data[key]]

\* len(df) of a table of the bundle, 0 for a missing one
TableRecords(df) == IF df = NULL THEN 0 ELSE Len(Rows(df))

\* all_validation_results and combined_summary
combined_report(data) ==
  LET after == renamed_bundle(data)
      all_validation_results ==
        after["product_validation"] \o after["planogram_validation"] \o after["fixture_validation"]
      tables == <<"product_summary", "planogram_summary", "fixture_summary">>
      lists == <<"product_validation", "planogram_validation", "fixture_validation">>
      \* a summary is added when its table's result list is not empty
      Sum(field) ==
        LET part(k) == IF data[lists[k]] # <<>> THEN data[tables[k]][field] ELSE 0
        IN part(1) + part(2) + part(3)
      failed == Sum("failed")
      warnings == Sum("warnings")
  IN [all_validation_results |-> all_validation_results,
      combined_summary |->
        [total_checks |-> Sum("total_checks"),
         passed |-> Sum("passed"),
         failed |-> failed,
         warnings |-> warnings,
         overall_status |-> IF failed > 0 THEN "FAIL"
                            ELSE IF warnings > 0 THEN "WARNING" ELSE "PASS",
         total_errors |-> SumErrors(all_validation_results),
         total_records |-> TableRecords(data["product_df"]) + TableRecords(data["planogram_df"])
                             + TableRecords(data["fixture_df"])]]

\* the bundle as process_psa_file returned it for the upload
Bundle == previous

InitExport ==
  /\ psa_bytes \in Files
  /\ today = 739921
  /\ hash_seed = 0 /\ runs = 0
  /\ pc = "processed"
  /\ previous = process_psa_file(psa_bytes, today, hash_seed)
  /\ result = previous
  /\ exported = <<>>
  /\ line = <<>> /\ parsed = NULL /\ fields = <<>> /\ mapped = <<>>
  /\ NoValidator

\* create_excel_export(data) on the bundle held in result
CreateExcelExport ==
  /\ Len(exported) < MaxExports
  /\ exported' = Append(exported, combined_report(result))
  /\ result' = renamed_bundle(result)
  /\ pc' = "exported"
  /\ UNCHANGED <<psa_bytes, today, line, parsed, fields, mapped, hash_seed, previous, runs>>
  /\ UNCHANGED validator_vars

NextExport == CreateExcelExport

SpecExport == InitExport /\ [][NextExport]_vars

CheckNames(validation_results) ==
  [i \in 1..Len(validation_results) |-> validation_results[i].check_name] \o <<>>

SummedOverTables(field) ==
  Bundle["product_summary"][field] + Bundle["planogram_summary"][field]
    + Bundle["fixture_summary"][field]

\* C30: create_excel_export leaves the bundle as it was given, so two calls
\* on the same bundle give the same combined check names, and the combined
\* summary's total_checks, passed, failed and warnings are the sums of the
\* three tables' summaries.
C30_ExportLeavesBundleUnchanged ==
  /\ result = Bundle
  /\ \A k \in 1..Len(exported) :
       /\ CheckNames(exported[k].all_validation_results)
            = CheckNames(exported[1].all_validation_results)
       /\ \A field \in {"total_checks", "passed", "failed", "warnings"} :
            exported[k].combined_summary[field] = SummedOverTables(field)

\* the counts of the combined summary are the sums at every call, and the
\* statuses and counts of the bundle's results stay as they were
C30_SumsAndCountsKept ==
  /\ \A k \in 1..Len(exported) :
       \A field \in {"total_checks", "passed", "failed", "warnings"} :
          exported[k].combined_summary[field] = SummedOverTables(field)
  /\ \A key \in {"product_validation", "planogram_validation", "fixture_validation"} :
       /\ Len(result[key]) = Len(Bundle[key])
       /\ \A i \in 1..Len(result[key]) :
            /\ result[key][i].status = Bundle[key][i].status
            /\ result[key][i].error_count = Bundle[key][i].error_count
            /\ result[key][i].pass_count = Bundle[key][i].pass_count

\* a Product table exported twice: the bundle's first Product result is
\* named with two prefixes, and so is the second report's
C30_Witness ==
  /\ Len(exported) = 2
  /\ Bundle["product_validation"] # <<>>
  /\ Bundle["product_validation"][1].check_name = "Relay_ID Uniformity"
  /\ result["product_validation"][1].check_name = "[Product] [Product] Relay_ID Uniformity"
  /\ exported[1].all_validation_results[1].check_name = "[Product] Relay_ID Uniformity"
  /\ exported[2].all_validation_results[1].check_name = "[Product] [Product] Relay_ID Uniformity"
  /\ exported[2].combined_summary = exported[1].combined_summary

====
